---- MODULE Spec2Model ----
(***************************************************************************)
(* Note segmentation of src/music/test_crepe.py: the online stable-note    *)
(* stream (lines 62-84) and the batch event builder with its ghost-note    *)
(* filter and legato pass (lines 102-164).                                 *)
(*                                                                         *)
(* Times are integers in milliseconds, frequencies integers in Hz.  A note *)
(* symbol is the string hz_to_note formats, kept as its sequence of        *)
(* characters.                                                             *)
(*                                                                         *)
(* Sections 5 to 7 model src/music/monitoring.py: the note quantizer       *)
(* pitch_to_note next to hz_to_note, the zero-crossing estimator with its  *)
(* rolling median, and the capture callback and consumer loop of           *)
(* start_monitoring.  There frequencies are integers in mHz.               *)
(*                                                                         *)
(* Section 8 runs test_crepe.py as a whole, from the confidence mask and   *)
(* the smoothing of lines 49-60 through both loops to the written notes.   *)
(* Sections 9 and 10 follow one frequency into the MIDI export and into    *)
(* the visualizer src/music/app.py.                                        *)
(*                                                                         *)
(* Sections 11 and 12 model src/traffic: the adaptive traffic light        *)
(* controller with the simulator it drives, and the log rotation of        *)
(* quickstart.py.  There times are whole seconds.                          *)
(***************************************************************************)
EXTENDS Integers, Sequences, FiniteSets, TLC

VARIABLES
    pc,               \* position of the script: which loop or pass runs next
    MIN_NOTE_MS,      \* tuning knob, test_crepe.py:19
    MIN_MIDI_NOTE_MS, \* tuning knob, test_crepe.py:23
    time,             \* crepe's time array (ms), the part consumed so far
    smoothed,         \* the smoothed frequency array (Hz), same length
    current_note,     \* loop variable of both loops
    current_count,    \* loop variable of both loops
    current_start,    \* loop variable of the batch loop
    printed,          \* the lines the online loop has printed
    raw_events,       \* events as they stand after the flush (line 132)
    events,           \* the events list
    notes,            \* instrument.notes
    SMOOTH_MS,        \* tuning knob, test_crepe.py:14
    crepe_frequency,  \* the frequency array (Hz) crepe.predict returns
    crepe_confidence, \* the confidence array (percent), same length
    frame,            \* how many frames the running loop of the script has read
    online_state,     \* (current_note, current_count) after each online frame
    quant,            \* one frequency, what the two quantizers make of it,
                      \* what note_name_to_midi makes of hz_to_note's symbol,
                      \* and the point and the name the visualizer shows for it
    CHUNK,            \* AudioMonitor.CHUNK, the block length of the stream
    channels,         \* the channel count start_monitoring opens the stream with
    monitor_pc,       \* position of start_monitoring
    raised,           \* the exception that ended start_monitoring's loop, if any
    audio_queue,      \* AudioMonitor.audio_queue
    pitch_buffer,     \* AudioMonitor.pitch_buffer
    last_sent_pitch,  \* AudioMonitor.last_sent_pitch
    last_sent_time,   \* AudioMonitor.last_sent_time (ms)
    clock,            \* what time.time() returns (ms)
    log,              \* the lines log_data has appended to the log file
    sent,             \* the datagrams handed to udp_sock.sendto
    result,           \* the last call of get_pitch_and_frequency and its return
    accepted,         \* every block estimate that passed the estimator's gates
    consumed,         \* the blocks taken from the queue, in order
    timeouts,         \* how often audio_queue.get timed out
    calls,            \* how often get_pitch_and_frequency was called
    config,           \* the Config the traffic controller reads its knobs from
    sumo,             \* the simulator behind traci: time, signal, lanes, vehicles
    phase_start_time, \* AdaptiveTrafficController.phase_start_time
    phase_switches,   \* run_simulation's counter of switching control steps
    metrics,          \* the TrafficMetrics of the run
    last_step,        \* what the last control_step saw and what it returned
    log_files,        \* the step_*.csv files of quickstart.py's LOG_DIR
    step_idx          \* quickstart.py's step_idx

\* the state of the script test_crepe.py
scriptVars == <<pc, MIN_NOTE_MS, MIN_MIDI_NOTE_MS, time, smoothed, current_note,
                current_count, current_start, printed, raw_events, events, notes>>

\* crepe's raw output, the smoothing knob and the position of the script's
\* loops when the script runs from its first line to its last
pipelineVars == <<SMOOTH_MS, crepe_frequency, crepe_confidence, frame,
                  online_state>>

\* the state of an AudioMonitor of monitoring.py and of its environment
monitorVars == <<CHUNK, channels, monitor_pc, raised, audio_queue, pitch_buffer,
                 last_sent_pitch, last_sent_time, clock, log, sent, result,
                 accepted, consumed, timeouts, calls>>

\* the state of the traffic programs of src/traffic and of their simulator
trafficVars == <<config, sumo, phase_start_time, phase_switches, metrics,
                 last_step, log_files, step_idx>>

vars == <<scriptVars, pipelineVars, quant, monitorVars, trafficVars>>

-----------------------------------------------------------------------------
(* Bounds of the model *)

\* longest frame sequence fed to the online loop
MaxFrames == 10

\* longest frame sequence fed to the batch loop
MaxBatchFrames == 4

-----------------------------------------------------------------------------
(* Configuration and inputs *)

STEP_MS == 10

\* Python's None where a note string is expected: the one character sequence
\* that hz_to_note never formats
None == <<>>

\* values of the MIN_NOTE_MS knob: they give MIN_NOTE_FRAMES 0, 1, 2, 4 and
\* the configured 8
MinNoteMsChoices == {5, 10, 15, 40, 80}

\* values of the MIN_MIDI_NOTE_MS knob: the configured 200 and the 100 of the
\* specification's example
MinMidiNoteMsChoices == {100, 200}

\* smoothed frequencies: 0 is what the smoothing yields where no neighbour is
\* valid; 445 and 494 quantize to A4 and B4
Freqs == {0, 445, 494}

\* distances between consecutive timestamps of a batch trajectory: the
\* configured step of 10 ms, and the distances of the specification's example
Gaps == {10, 30, 50, 220}

\* int(round(a / b)) for a >= 0, b > 0: Python rounds halves to even
PyRound(a, b) ==
    LET q == a \div b
        r == a % b
    IN  IF 2 * r < b THEN q
        ELSE IF 2 * r > b THEN q + 1
        ELSE IF q % 2 = 0 THEN q ELSE q + 1

MIN_NOTE_FRAMES == PyRound(MIN_NOTE_MS, STEP_MS)

-----------------------------------------------------------------------------
(* hz_to_note *)

NOTE_NAMES == << <<"C">>, <<"C", "#">>, <<"D">>, <<"D", "#">>, <<"E">>, <<"F">>,
                 <<"F", "#">>, <<"G">>, <<"G", "#">>, <<"A">>, <<"A", "#">>, <<"B">> >>

\* the MIDI numbers the tables cover: 7.9 Hz to 20.5 kHz
MidiLo == 0

MidiHi == 135

\* round(440000 * 2^((m - 69.5) / 12)) for m = MidiLo .. MidiHi + 1
EdgeTable == <<
        7943, 8415, 8916, 9446, 10008, 10603, 11233, 11901,
        12609, 13359, 14153, 14994, 15886, 16831, 17832, 18892,
        20015, 21205, 22466, 23802, 25218, 26717, 28306, 29989,
        31772, 33661, 35663, 37784, 40030, 42411, 44933, 47605,
        50435, 53434, 56612, 59978, 63544, 67323, 71326, 75567,
        80061, 84822, 89865, 95209, 100870, 106869, 113223, 119956,
        127089, 134646, 142652, 151135, 160122, 169643, 179731, 190418,
        201741, 213737, 226446, 239912, 254178, 269292, 285305, 302270,
        320244, 339286, 359461, 380836, 403482, 427474, 452893, 479823,
        508355, 538584, 570609, 604540, 640487, 678573, 718923, 761672,
        806964, 854948, 905786, 959647, 1016710, 1077167, 1141219, 1209079,
        1280975, 1357146, 1437846, 1523344, 1613927, 1709896, 1811572, 1919294,
        2033421, 2154334, 2282438, 2418158, 2561950, 2714291, 2875691, 3046689,
        3227854, 3419792, 3623144, 3838587, 4066841, 4308668, 4564875, 4836317,
        5123899, 5428582, 5751382, 6093377, 6455708, 6839585, 7246288, 7677174,
        8133683, 8617337, 9129750, 9672634, 10247798, 10857164, 11502765, 12186755,
        12911417, 13679170, 14492575, 15354349, 16267366, 17234674, 18259501, 19345267,
        20495597 >>

\* 440000 * 2^((m - 69.5) / 12): the frequency, in mHz, at which
\* round(69 + 12 * log2(f / 440)) steps from m - 1 to m
MidiEdge == [m \in MidiLo..(MidiHi + 1) |-> EdgeTable[m - MidiLo + 1]]

\* round(440000 * 2^((m - 69) / 12)) for m = MidiLo .. MidiHi + 1
CentreTable == <<
        8176, 8662, 9177, 9723, 10301, 10913, 11562, 12250,
        12978, 13750, 14568, 15434, 16352, 17324, 18354, 19445,
        20602, 21827, 23125, 24500, 25957, 27500, 29135, 30868,
        32703, 34648, 36708, 38891, 41203, 43654, 46249, 48999,
        51913, 55000, 58270, 61735, 65406, 69296, 73416, 77782,
        82407, 87307, 92499, 97999, 103826, 110000, 116541, 123471,
        130813, 138591, 146832, 155563, 164814, 174614, 184997, 195998,
        207652, 220000, 233082, 246942, 261626, 277183, 293665, 311127,
        329628, 349228, 369994, 391995, 415305, 440000, 466164, 493883,
        523251, 554365, 587330, 622254, 659255, 698456, 739989, 783991,
        830609, 880000, 932328, 987767, 1046502, 1108731, 1174659, 1244508,
        1318510, 1396913, 1479978, 1567982, 1661219, 1760000, 1864655, 1975533,
        2093005, 2217461, 2349318, 2489016, 2637020, 2793826, 2959955, 3135963,
        3322438, 3520000, 3729310, 3951066, 4186009, 4434922, 4698636, 4978032,
        5274041, 5587652, 5919911, 6271927, 6644875, 7040000, 7458620, 7902133,
        8372018, 8869844, 9397273, 9956063, 10548082, 11175303, 11839822, 12543854,
        13289750, 14080000, 14917240, 15804266, 16744036, 17739688, 18794545, 19912127,
        21096164 >>

\* 440000 * 2^((m - 69) / 12): the centre frequency of MIDI number m, in mHz,
\* at which floor(69 + 12 * log2(f / 440)) steps from m - 1 to m
MidiCentre == [m \in MidiLo..(MidiHi + 1) |-> CentreTable[m - MidiLo + 1]]

\* the largest m in lo..hi with table[m] <= mhz
RECURSIVE LastAtMost(_, _, _, _)
LastAtMost(table, lo, hi, mhz) ==
    IF lo >= hi THEN lo
    ELSE LET mid == (lo + hi + 1) \div 2
         IN  IF table[mid] <= mhz
             THEN LastAtMost(table, mid, hi, mhz)
             ELSE LastAtMost(table, lo, mid - 1, mhz)

\* round(69 + 12 * math.log2(f / 440.0)) for f given in mHz
MidiOfMilliHz(mhz) == LastAtMost(MidiEdge, MidiLo, MidiHi, mhz)

\* floor(69 + 12 * math.log2(f / 440.0)) for f given in mHz
MidiFloorOfMilliHz(mhz) == LastAtMost(MidiCentre, MidiLo, MidiHi, mhz)

\* round(69 + 12 * math.log2(freq_hz / 440.0)) for the tabulated range
MidiOfHz(freq_hz) == MidiOfMilliHz(1000 * freq_hz)

Digit == <<"0", "1", "2", "3", "4", "5", "6", "7", "8", "9">>

\* the decimal string of an integer, as an f-string formats it
RECURSIVE FormatNat(_)
FormatNat(n) ==
    IF n < 10 THEN <<Digit[n + 1]>>
    ELSE FormatNat(n \div 10) \o <<Digit[(n % 10) + 1]>>

FormatInt(n) == IF n < 0 THEN <<"-">> \o FormatNat(-n) ELSE FormatNat(n)

hz_to_note(freq_hz) ==
    IF freq_hz <= 0 THEN None
    ELSE LET midi == MidiOfHz(freq_hz)
             name == NOTE_NAMES[(midi % 12) + 1]
             octave == (midi \div 12) - 1
         IN  name \o FormatInt(octave)

\* faulty variant: the octave is not shifted by one
hz_to_note_milli_Octave(mhz) ==
    IF mhz <= 0 THEN None
    ELSE LET midi == MidiOfMilliHz(mhz)
         IN  NOTE_NAMES[(midi % 12) + 1] \o FormatInt(midi \div 12)

\* hz_to_note on a frequency given in mHz
hz_to_note_milli(mhz) ==
    IF mhz <= 0 THEN None
    ELSE LET midi == MidiOfMilliHz(mhz)
             name == NOTE_NAMES[(midi % 12) + 1]
             octave == (midi \div 12) - 1
         IN  name \o FormatInt(octave)

\* not np.isfinite(f) or f <= 0; smoothed holds no NaN, line 56 replaces
\* them by 0 before the convolution
Invalid(f) == f <= 0

\* what the loops and passes of test_crepe.py leave alone when each is run
\* on its own
otherVars == <<pipelineVars, quant, monitorVars, trafficVars>>

\* no raw output of crepe is held: a loop or a pass of the script runs on
\* its own, or another part of the repository runs
NoPipeline ==
    /\ SMOOTH_MS = 60
    /\ crepe_frequency = <<>>
    /\ crepe_confidence = <<>>
    /\ frame = 0
    /\ online_state = <<>>

\* nothing was handed to note_name_to_midi
NoExport == [raised |-> "", midi |-> None]

NoQuant == [f |-> 0, crepe |-> None, monitor |-> None, export |-> NoExport,
            point |-> None, shown |-> None, done |-> FALSE]

\* no block: what result holds before the first call
NoBlock == [shape |-> <<>>, rms |-> 0, crossings |-> 0]

NoResult == [block |-> NoBlock, raised |-> "", pitch |-> None, note |-> None, rms |-> 0]

\* AudioMonitor.__init__ with CHUNK = chunk; nothing is logged, sent or
\* consumed yet
Constructed(chunk) ==
    /\ CHUNK = chunk
    /\ channels = 0
    /\ monitor_pc = "constructed"
    /\ raised = ""
    /\ audio_queue = <<>>
    /\ pitch_buffer = <<>>
    /\ last_sent_pitch = None
    /\ last_sent_time = 0
    /\ clock = 0
    /\ log = <<>>
    /\ sent = <<>>
    /\ result = NoResult
    /\ accepted = <<>>
    /\ consumed = <<>>
    /\ timeouts = 0
    /\ calls = 0

\* Config of controller.py without a JSON file: the defaults of lines 62-65
DefaultConfig ==
    [MIN_GREEN_TIME |-> 10, MAX_GREEN_TIME |-> 60, QUEUE_THRESHOLD |-> 5]

\* traci before traci.start: no simulation is loaded
NoSimulation ==
    [time |-> 0, phase |-> 0, entered |-> 0, program |-> <<>>,
     halting |-> <<>>, arrived |-> 0, setPhase_calls |-> 0, running |-> FALSE]

\* control_step was not called yet
NoStep ==
    [called |-> FALSE, sim_time |-> 0, phase_start_time |-> 0, phase |-> 0,
     age |-> 0, green |-> {}, current_queue |-> 0, other_queue |-> 0,
     returned |-> FALSE]

\* TrafficMetrics.reset (controller.py lines 108-114)
MetricsReset ==
    [vehicles_passed |-> 0, total_queue_length |-> 0, measurements |-> 0]

\* no traffic program runs: nothing is simulated and LOG_DIR is not looked at
NoTraffic ==
    /\ config = DefaultConfig
    /\ sumo = NoSimulation
    /\ phase_start_time = 0
    /\ phase_switches = 0
    /\ metrics = MetricsReset
    /\ last_step = NoStep
    /\ log_files = {}
    /\ step_idx = 0

\* the state outside the script while only the script runs
OtherIdle == NoPipeline /\ quant = NoQuant /\ Constructed(4096) /\ NoTraffic

-----------------------------------------------------------------------------
(* 3) the stable note stream, lines 62-84 *)

\* faulty variant: an invalid frame is skipped without touching the run state
OnlineAfterInvalid_Skip(note, count) == <<note, count>>

\* faulty variant: an invalid frame resets the count and keeps the note
OnlineAfterInvalid_KeepNote(note, count) == <<note, 0>>

\* lines 67-70: the run state <<current_note, current_count>> after an
\* invalid frame
OnlineAfterInvalid(note, count) == <<None, 0>>

\* lines 76-80: the run state after a valid frame that quantizes to note
OnlineAfterValid(cur_note, cur_count, note) ==
    IF note = cur_note THEN <<cur_note, cur_count + 1>> ELSE <<note, 1>>

\* faulty variant: accepts on every frame from the threshold on
Accept_AtLeast(count) == count >= MIN_NOTE_FRAMES

\* faulty variant: accepts one frame late
Accept_Late(count) == count = MIN_NOTE_FRAMES + 1

\* line 83: accept note only if it was stable long enough
Accept(count) == count = MIN_NOTE_FRAMES

\* line 84: the printed line; i is the index of the frame in the arrays
PrintedLine(i, t, note) == [i |-> i, t |-> t, note |-> note]

\* one iteration of the loop of line 66 on the frame (t, f)
OnlineFrame(t, f) ==
    /\ pc = "online"
    /\ Len(time) < MaxFrames
    /\ time' = Append(time, t)
    /\ smoothed' = Append(smoothed, f)
    /\ IF Invalid(f)
       THEN /\ current_note' = OnlineAfterInvalid(current_note, current_count)[1]
            /\ current_count' = OnlineAfterInvalid(current_note, current_count)[2]
            /\ printed' = printed
       ELSE LET note == hz_to_note(f)
            IN  IF note = None
                THEN UNCHANGED <<current_note, current_count, printed>>
                ELSE LET run == OnlineAfterValid(current_note, current_count, note)
                     IN  /\ current_note' = run[1]
                         /\ current_count' = run[2]
                         /\ printed' =
                              IF Accept(run[2])
                              THEN Append(printed, PrintedLine(Len(time), t, note))
                              ELSE printed
    /\ UNCHANGED <<pc, MIN_NOTE_MS, MIN_MIDI_NOTE_MS, current_start,
                   raw_events, events, notes>>
    /\ UNCHANGED otherVars

\* crepe.predict(step_size=10): frame i carries the time i * 10 ms
OnlineStep == \E f \in Freqs : OnlineFrame(Len(time) * STEP_MS, f)

InitOnline ==
    /\ pc = "online"
    /\ MIN_NOTE_MS \in MinNoteMsChoices
    /\ MIN_MIDI_NOTE_MS = 200
    /\ time = <<>>
    /\ smoothed = <<>>
    /\ current_note = None
    /\ current_count = 0
    /\ current_start = None
    /\ printed = <<>>
    /\ raw_events = <<>>
    /\ events = <<>>
    /\ notes = <<>>
    /\ OtherIdle

NextOnline == OnlineStep

SpecOnline == InitOnline /\ [][NextOnline]_vars

-----------------------------------------------------------------------------
(* MIDI generation, lines 86-164 *)

NOTE_TO_MIDI ==
    (<<"C">> :> 0) @@ (<<"C", "#">> :> 1) @@ (<<"D">> :> 2) @@ (<<"D", "#">> :> 3) @@
    (<<"E">> :> 4) @@ (<<"F">> :> 5) @@ (<<"F", "#">> :> 6) @@ (<<"G">> :> 7) @@
    (<<"G", "#">> :> 8) @@ (<<"A">> :> 9) @@ (<<"A", "#">> :> 10) @@ (<<"B">> :> 11)

\* lines 97-100; int() of a character that is no digit raises ValueError, a
\* name that is no key of NOTE_TO_MIDI raises KeyError
note_name_to_midi(note) ==
    LET name == SubSeq(note, 1, Len(note) - 1)
        last == note[Len(note)]
    IN  IF ~(\E d \in DOMAIN Digit : Digit[d] = last) THEN "ValueError"
        ELSE IF name \notin DOMAIN NOTE_TO_MIDI THEN "KeyError"
        ELSE LET octave == (CHOOSE d \in DOMAIN Digit : Digit[d] = last) - 1
             IN  12 * (octave + 1) + NOTE_TO_MIDI[name]

\* faulty variant: start and end change places
ClosedEvent_Swapped(note, start, end) == [note |-> note, start |-> end, end |-> start]

\* faulty variant: the event is closed at the time it was opened
ClosedEvent_Instant(note, start, end) == [note |-> note, start |-> start, end |-> start]

\* lines 124 and 132: the tuple (current_note, current_start, t)
ClosedEvent(note, start, end) == [note |-> note, start |-> start, end |-> end]

\* faulty variant: an invalid frame closes the open event and drops the note,
\* as the online loop's reset would
BatchAfterInvalid_Close(note, start, count, evs, t) ==
    [note |-> None, start |-> None, count |-> 0,
     events |-> IF note # None THEN Append(evs, ClosedEvent(note, start, t)) ELSE evs]

\* faulty variant: an invalid frame forgets the tracked note
BatchAfterInvalid_Forget(note, start, count, evs, t) ==
    [note |-> None, start |-> start, count |-> 0, events |-> evs]

\* lines 110-113: the loop state after an invalid frame at time t
BatchAfterInvalid(note, start, count, evs, t) ==
    [note |-> note, start |-> start, count |-> 0, events |-> evs]

\* faulty variant: a frame of the tracked note does not count
BatchAfterValid_NoCount(cur_note, cur_start, cur_count, evs, t, note) ==
    IF note = cur_note
    THEN [note |-> cur_note, start |-> cur_start, count |-> cur_count, events |-> evs]
    ELSE [note |-> note, start |-> t, count |-> 1,
          events |-> IF cur_note # None
                     THEN Append(evs, [note |-> cur_note, start |-> cur_start, end |-> t])
                     ELSE evs]

\* lines 119-128: the loop state after a valid frame at time t that
\* quantizes to note
BatchAfterValid(cur_note, cur_start, cur_count, evs, t, note) ==
    IF note = cur_note
    THEN [note |-> cur_note, start |-> cur_start, count |-> cur_count + 1, events |-> evs]
    ELSE [note |-> note, start |-> t, count |-> 1,
          events |-> IF cur_note # None
                     THEN Append(evs, ClosedEvent(cur_note, cur_start, t))
                     ELSE evs]

\* one iteration of the loop of line 109 on the frame (t, f)
BatchFrame(t, f) ==
    /\ pc = "batch"
    /\ Len(time) < MaxBatchFrames
    /\ time' = Append(time, t)
    /\ smoothed' = Append(smoothed, f)
    /\ LET note == hz_to_note(f)
           st == IF Invalid(f)
                 THEN BatchAfterInvalid(current_note, current_start, current_count, events, t)
                 ELSE IF note = None
                 THEN [note |-> current_note, start |-> current_start,
                       count |-> current_count, events |-> events]
                 ELSE BatchAfterValid(current_note, current_start, current_count,
                                      events, t, note)
       IN  /\ current_note' = st.note
           /\ current_start' = st.start
           /\ current_count' = st.count
           /\ events' = st.events
    /\ UNCHANGED <<pc, MIN_NOTE_MS, MIN_MIDI_NOTE_MS, printed, raw_events, notes>>
    /\ UNCHANGED otherVars

\* the time array is strictly increasing from 0
BatchStep ==
    \E f \in Freqs : \E dt \in Gaps :
        BatchFrame(IF time = <<>> THEN 0 ELSE time[Len(time)] + dt, f)

\* faulty variant: the note still open at the end of the input is dropped
Flushed_Drop(note, start, evs, times) == evs

\* lines 131-132: the events list after the flush; times[-1] is read only
\* when a note is open
Flushed(note, start, evs, times) ==
    IF note # None
    THEN Append(evs, ClosedEvent(note, start, times[Len(times)]))
    ELSE evs

\* lines 130-132: flush last note
Flush ==
    /\ pc = "batch"
    /\ pc' = "flushed"
    /\ events' = Flushed(current_note, current_start, events, time)
    /\ raw_events' = events'
    /\ UNCHANGED <<MIN_NOTE_MS, MIN_MIDI_NOTE_MS, time, smoothed, current_note,
                   current_count, current_start, printed, notes>>
    /\ UNCHANGED otherVars

\* faulty variant: an event of exactly the minimum duration is dropped
KeepEvent_Strict(e) == e.end - e.start > MIN_MIDI_NOTE_MS

\* line 140: end - start >= MIN_MIDI_NOTE_S, both sides in ms
KeepEvent(e) == e.end - e.start >= MIN_MIDI_NOTE_MS

\* lines 137-141: remove ultra-short ghost notes
GhostFilter ==
    /\ pc = "flushed"
    /\ pc' = "filtered"
    /\ events' = SelectSeq(events, KeepEvent)
    /\ UNCHANGED <<MIN_NOTE_MS, MIN_MIDI_NOTE_MS, time, smoothed, current_note,
                   current_count, current_start, printed, raw_events, notes>>
    /\ UNCHANGED otherVars

\* faulty variant: a silence of 10 ms (the unused MIN_GAP of line 21) is left
\* before the next event
LegatoEnd_Gap(evs, i) ==
    IF i + 1 <= Len(evs) THEN evs[i + 1].start - STEP_MS ELSE evs[i].end

\* faulty variant: the end of the event is left as it was
LegatoEnd_Keep(evs, i) == evs[i].end

\* lines 152-153: force strict legato, end = next start (i counts from 1)
LegatoEnd(evs, i) == IF i + 1 <= Len(evs) THEN evs[i + 1].start ELSE evs[i].end

\* lines 146-164: write MIDI notes
WriteNotes ==
    /\ pc = "filtered"
    /\ pc' = "written"
    /\ notes' = [i \in 1..Len(events) |->
                    [velocity |-> 90,
                     pitch |-> note_name_to_midi(events[i].note),
                     start |-> events[i].start,
                     end |-> LegatoEnd(events, i)]]
    /\ UNCHANGED <<MIN_NOTE_MS, MIN_MIDI_NOTE_MS, time, smoothed, current_note,
                   current_count, current_start, printed, raw_events, events>>
    /\ UNCHANGED otherVars

InitBatch ==
    /\ pc = "batch"
    /\ MIN_NOTE_MS = 80
    /\ MIN_MIDI_NOTE_MS \in MinMidiNoteMsChoices
    /\ time = <<>>
    /\ smoothed = <<>>
    /\ current_note = None
    /\ current_count = 0
    /\ current_start = None
    /\ printed = <<>>
    /\ raw_events = <<>>
    /\ events = <<>>
    /\ notes = <<>>
    /\ OtherIdle

NextBatch == BatchStep \/ Flush \/ GhostFilter \/ WriteNotes

SpecBatch == InitBatch /\ [][NextBatch]_vars

-----------------------------------------------------------------------------
(* The online loop against its frame history *)

\* what each input frequency quantizes to, None for an invalid one
NoteOfFreq == [f \in Freqs |-> IF Invalid(f) THEN None ELSE hz_to_note(f)]

\* the note of frame j (0-based), None for an invalid frame
FrameNote(j) == NoteOfFreq[smoothed[j + 1]]

FrameIdx == 0..(Len(smoothed) - 1)

\* frames a..b are valid frames of note n
AllNote(a, b, n) == \A j \in a..b : FrameNote(j) = n

\* a maximal run of note n starts at frame s
RunStartsAt(s, n) ==
    /\ s \in FrameIdx
    /\ n # None
    /\ FrameNote(s) = n
    /\ (s = 0 \/ FrameNote(s - 1) # n)

\* the (index, note) pairs of the printed lines
PrintedPairs == {<<printed[k].i, printed[k].note>> : k \in DOMAIN printed}

\* C1: one maximal run of consecutive valid frames of the same note produces
\* at most one emission: the emissions are on distinct, increasing frames, and
\* between two emissions of the same note lies an invalid frame or a frame of
\* another note.
C1_OneEmissionPerRun ==
    pc = "online" =>
        \A a, b \in DOMAIN printed :
            a < b =>
                /\ printed[a].i < printed[b].i
                /\ printed[a].note = printed[b].note =>
                      \E j \in (printed[a].i + 1)..(printed[b].i - 1) :
                          FrameNote(j) # printed[a].note

\* a run went on past its emission, and the same note was emitted again later
C1_Witness ==
    /\ pc = "online"
    /\ MIN_NOTE_FRAMES = 2
    /\ \E a, b \in DOMAIN printed :
          /\ a < b
          /\ printed[a].note = printed[b].note
          /\ FrameNote(printed[a].i + 1) = printed[a].note

\* The Idle / Tracking(note, count, locked) machine of the specification's
\* section 4.4 after the first k frames, with the frames it has emitted on.
RECURSIVE Tracking(_)
Tracking(k) ==
    IF k = 0
    THEN [note |-> None, count |-> 0, locked |-> FALSE, emitted |-> {}]
    ELSE LET prev == Tracking(k - 1)
             n == FrameNote(k - 1)
             upd == IF n = None
                    THEN [prev EXCEPT !.note = None, !.count = 0, !.locked = FALSE]
                    ELSE IF n = prev.note
                    THEN [prev EXCEPT !.count = prev.count + 1]
                    ELSE [prev EXCEPT !.note = n, !.count = 1, !.locked = FALSE]
         IN  IF n # None /\ ~upd.locked /\ upd.count >= MIN_NOTE_FRAMES
             THEN [upd EXCEPT !.locked = TRUE, !.emitted = prev.emitted \cup {<<k - 1, n>>}]
             ELSE upd

\* C2: for every frame sequence and every MIN_NOTE_FRAMES the knobs can give,
\* 0 and 1 included, the loop prints on exactly the frames on which the
\* Idle / Tracking machine emits (locked false and count >= MIN_NOTE_FRAMES
\* after the count update).
C2_LoopEmitsAsTrackingMachine ==
    pc = "online" => PrintedPairs = Tracking(Len(smoothed)).emitted

\* C3: with MIN_NOTE_FRAMES = N >= 1 a maximal run that starts at index s
\* produces exactly one emission, at index s + N - 1, once it is N frames
\* long, and none while it is shorter; N = 4 on [A4 x5, B4 x5] prints at index
\* 3 (A4) and index 8 (B4) and nowhere else.
C3_EmissionAtRunStartPlusN ==
    (pc = "online" /\ MIN_NOTE_FRAMES >= 1) =>
        /\ \A k \in DOMAIN printed :
              /\ k > 1 => printed[k - 1].i < printed[k].i
              /\ printed[k].i \in FrameIdx
              /\ printed[k].note = FrameNote(printed[k].i)
              /\ printed[k].t = time[printed[k].i + 1]
        /\ \A j \in FrameIdx :
              (\E k \in DOMAIN printed : printed[k].i = j) <=>
                  /\ RunStartsAt(j - MIN_NOTE_FRAMES + 1, FrameNote(j))
                  /\ AllNote(j - MIN_NOTE_FRAMES + 1, j, FrameNote(j))
        /\ (MIN_NOTE_FRAMES = 4 /\ smoothed = <<445, 445, 445, 445, 445, 494, 494, 494, 494, 494>>) =>
              printed = << [i |-> 3, t |-> 30, note |-> <<"A", "4">>],
                           [i |-> 8, t |-> 80, note |-> <<"B", "4">>] >>

\* the example of the specification has been run to its end
C3_Witness ==
    /\ pc = "online"
    /\ MIN_NOTE_FRAMES = 4
    /\ smoothed = <<445, 445, 445, 445, 445, 494, 494, 494, 494, 494>>
    /\ Len(printed) = 2

\* single valid frames and single invalid frames alternate
Alternating == \A k \in 1..(Len(smoothed) - 1) : Invalid(smoothed[k]) # Invalid(smoothed[k + 1])

\* C4: on an input that alternates single valid and single invalid frames,
\* with MIN_NOTE_FRAMES > 1, nothing is ever printed, whichever notes the
\* valid frames carry.
C4_AlternatingNeverEmits ==
    (pc = "online" /\ MIN_NOTE_FRAMES > 1 /\ Alternating) => printed = <<>>

\* an alternating input of six frames that returns to the same note
C4_Witness ==
    /\ pc = "online"
    /\ MIN_NOTE_FRAMES = 2
    /\ Alternating
    /\ Len(smoothed) >= 6
    /\ FrameNote(0) # None
    /\ FrameNote(2) = FrameNote(0)
    /\ FrameNote(4) # FrameNote(0)

\* C5: an invalid frame leaves the run state at Idle (current_note none,
\* count 0) and prints nothing on that frame, so a valid frame that follows it
\* starts a run at count 1, also when it carries the note tracked before.
C5_InvalidFrameResets ==
    (pc = "online" /\ Len(smoothed) >= 1) =>
        LET last == Len(smoothed) - 1
        IN  /\ FrameNote(last) = None =>
                  /\ current_note = None
                  /\ current_count = 0
                  /\ \A k \in DOMAIN printed : printed[k].i # last
            /\ (last >= 1 /\ FrameNote(last) # None /\ FrameNote(last - 1) = None) =>
                  /\ current_note = FrameNote(last)
                  /\ current_count = 1

\* a note, an invalid frame, and the same note again: the run restarts at 1
C5_Witness ==
    /\ pc = "online"
    /\ Len(smoothed) >= 4
    /\ LET last == Len(smoothed) - 1
       IN  /\ FrameNote(last) # None
           /\ FrameNote(last - 1) = None
           /\ FrameNote(last - 2) = FrameNote(last)
           /\ FrameNote(last - 3) = FrameNote(last)
           /\ current_count = 1

-----------------------------------------------------------------------------
(* The batch builder against its frame history *)

ValidIdx == {j \in FrameIdx : FrameNote(j) # None}

\* the last valid frame before frame j, -1 when there is none
PrevValid(j) ==
    LET before == {i \in ValidIdx : i < j}
    IN  IF before = {} THEN -1 ELSE CHOOSE i \in before : \A h \in before : h <= i

\* frame j is a valid frame whose note differs from the last valid frame's
NoteChangeAt(j) ==
    /\ j \in ValidIdx
    /\ PrevValid(j) >= 0
    /\ FrameNote(PrevValid(j)) # FrameNote(j)

\* frame j is a valid frame that starts a tracked note
OpensAt(j) == j \in ValidIdx /\ (PrevValid(j) = -1 \/ NoteChangeAt(j))

\* the frame at which the note tracked at frame j was opened
OpenedAt(j) ==
    LET opens == {i \in ValidIdx : i <= j /\ OpensAt(i)}
    IN  CHOOSE i \in opens : \A h \in opens : h <= i

LastIdx == Len(smoothed) - 1

\* C24: at the end of the input sequence a note that is still open is closed
\* with end_time equal to the last timestamp of the trajectory, as the last
\* raw event; if no valid frame ever occurred, no event is produced.
C24_FlushClosesOpenNote ==
    pc = "flushed" =>
        IF ValidIdx = {}
        THEN raw_events = <<>>
        ELSE /\ raw_events # <<>>
             /\ raw_events[Len(raw_events)] =
                   [note |-> FrameNote(PrevValid(Len(smoothed))),
                    start |-> time[OpenedAt(LastIdx) + 1],
                    end |-> time[Len(time)]]

\* the flush has closed a note whose last valid frame is not the last frame,
\* after an earlier event
C24_Witness ==
    /\ pc = "flushed"
    /\ Len(raw_events) = 2
    /\ FrameNote(LastIdx) = None
    /\ raw_events[2].end = time[Len(time)]
    /\ raw_events[2].end > raw_events[2].start

\* C29: two consecutive exported events never carry the same note: a note
\* interrupted only by a reclassification shorter than the ghost-note
\* threshold is exported as one event, not as two adjacent events of that
\* note.
C29_NoRepeatedNoteExported ==
    pc = "written" =>
        \A k \in 1..(Len(notes) - 1) : notes[k].pitch # notes[k + 1].pitch

\* C6 as the specification states it: a tracked note followed by an invalid
\* frame is closed at that frame's time as (prev_note, prev_start, current
\* time), and the run state is reset to none / 0.
C6_InvalidFrameClosesEvent ==
    (pc = "batch" /\ LastIdx >= 1 /\ FrameNote(LastIdx) = None /\ FrameNote(LastIdx - 1) # None) =>
        /\ current_note = None
        /\ current_count = 0
        /\ events # <<>>
        /\ events[Len(events)].note = FrameNote(LastIdx - 1)
        /\ events[Len(events)].end = time[Len(time)]

\* C6, amended: an invalid frame closes no event and keeps current_note and
\* current_start; it only sets current_count to 0.  Events are closed only at
\* a valid frame whose note differs from the note of the last valid frame
\* before it, so a later valid frame of the same note continues the open
\* event.
C6_InvalidFrameKeepsEventOpen ==
    pc = "batch" =>
        /\ Len(events) = Cardinality({j \in ValidIdx : NoteChangeAt(j)})
        /\ \A k \in DOMAIN events :
              \E j \in ValidIdx :
                  /\ NoteChangeAt(j)
                  /\ events[k].end = time[j + 1]
                  /\ events[k].note = FrameNote(PrevValid(j))
                  /\ events[k].start = time[OpenedAt(PrevValid(j)) + 1]
        /\ \A k \in DOMAIN events : k > 1 => events[k - 1].end < events[k].end
        /\ IF ValidIdx = {}
           THEN current_note = None
           ELSE /\ current_note = FrameNote(PrevValid(LastIdx + 1))
                /\ current_start = time[OpenedAt(LastIdx) + 1]
        /\ (LastIdx >= 0 /\ FrameNote(LastIdx) = None) => current_count = 0

\* a note, an invalid frame and the same note again: one event is still open,
\* started at the first frame
C6_Witness ==
    /\ pc = "batch"
    /\ LastIdx >= 2
    /\ FrameNote(LastIdx) # None
    /\ FrameNote(LastIdx - 1) = None
    /\ FrameNote(LastIdx - 2) = FrameNote(LastIdx)
    /\ events = <<>>
    /\ current_note = FrameNote(LastIdx)
    /\ current_start = time[1]
    /\ current_count = 1

Overlap(a, b) == a.start < b.end /\ b.start < a.end

WellFormed(evs) ==
    /\ \A k \in DOMAIN evs : evs[k].end >= evs[k].start
    /\ \A a, b \in DOMAIN evs : a # b => ~Overlap(evs[a], evs[b])

\* C7: on a trajectory of strictly increasing timestamps every event of the
\* raw list, of the filtered list and of the list after the legato pass has
\* end_time >= start_time, and no two events of one list overlap in time.
C7_EventsWellFormed ==
    /\ \A k \in 1..(Len(time) - 1) : time[k] < time[k + 1]
    /\ WellFormed(events)
    /\ WellFormed(raw_events)
    /\ WellFormed(notes)

\* three raw events, one of them dropped by the filter, the others written
C7_Witness ==
    /\ pc = "written"
    /\ Len(raw_events) >= 3
    /\ Len(events) < Len(raw_events)
    /\ Len(notes) >= 2
    /\ notes[1].end # raw_events[1].end

\* C8: after the legato pass the notes are ordered by ascending start time
\* and contiguous: each note but the last ends where the next one starts, and
\* the last note keeps the end_time its event had before the pass.
C8_LegatoContiguous ==
    pc = "written" =>
        /\ Len(notes) = Len(events)
        /\ \A i \in DOMAIN notes :
              /\ notes[i].start = events[i].start
              /\ i < Len(notes) =>
                    /\ notes[i].start < notes[i + 1].start
                    /\ notes[i].end = notes[i + 1].start
              /\ i = Len(notes) => notes[i].end = events[i].end

\* two surviving events with a dropped one between them: the pass moved an end
C8_Witness ==
    /\ pc = "written"
    /\ Len(notes) >= 2
    /\ events[1].end # events[2].start
    /\ notes[1].end = events[2].start

\* C30: the legato pass never shortens an event: the end_time of every
\* exported event after the pass is >= its end_time before the pass, and no
\* start time is changed.
C30_LegatoNeverShortens ==
    pc = "written" =>
        /\ DOMAIN notes = DOMAIN events
        /\ \A i \in DOMAIN notes :
              /\ notes[i].end >= events[i].end
              /\ notes[i].start = events[i].start

\* two notes were written from three raw events: the first was stretched over
\* the dropped one, the second is the last and keeps its end
C30_Witness ==
    /\ pc = "written"
    /\ Len(notes) = 2
    /\ Len(raw_events) = 3
    /\ notes[1].end > events[1].end
    /\ notes[2].end = events[2].end

Range(seq) == {seq[k] : k \in DOMAIN seq}

\* C9: the list after the ghost-note filter holds exactly the raw events whose
\* duration end - start is >= the minimum duration, in their original order.
C9_GhostFilterExact ==
    pc \in {"filtered", "written"} =>
        /\ \A e \in Range(events) :
              e \in Range(raw_events) /\ e.end - e.start >= MIN_MIDI_NOTE_MS
        /\ \A e \in Range(raw_events) :
              e.end - e.start >= MIN_MIDI_NOTE_MS => e \in Range(events)
        /\ \A k \in DOMAIN raw_events : k > 1 => raw_events[k - 1].start < raw_events[k].start
        /\ \A k \in DOMAIN events : k > 1 => events[k - 1].start < events[k].start

\* an event of exactly the minimum duration is kept, a shorter one dropped
C9_Witness ==
    /\ pc = "filtered"
    /\ \E e \in Range(raw_events) :
          e.end - e.start = MIN_MIDI_NOTE_MS /\ e \in Range(events)
    /\ \E e \in Range(raw_events) :
          e.end - e.start < MIN_MIDI_NOTE_MS /\ e \notin Range(events)

\* valid frames of one note, then invalid frames for less than the minimum
\* duration, then valid frames of the same note up to the end of the input
SameNoteAcrossGap ==
    \E a, b \in FrameIdx :
        /\ 0 < a /\ a <= b /\ b < LastIdx
        /\ FrameNote(0) # None
        /\ \A j \in 0..(a - 1) : FrameNote(j) = FrameNote(0)
        /\ \A j \in a..b : FrameNote(j) = None
        /\ \A j \in (b + 1)..LastIdx : FrameNote(j) = FrameNote(0)
        /\ time[b + 2] - time[a + 1] < MIN_MIDI_NOTE_MS

\* C10 as the specification states it: on such an input the exported notes
\* cover the time from the first frame to the last timestamp without a gap,
\* all in the one note.
C10_GapAlwaysCovered ==
    (pc = "written" /\ SameNoteAcrossGap) =>
        /\ notes # <<>>
        /\ notes[1].start = time[1]
        /\ notes[Len(notes)].end = time[Len(time)]
        /\ \A i \in DOMAIN notes :
              /\ notes[i].pitch = note_name_to_midi(FrameNote(0))
              /\ i < Len(notes) => notes[i].end = notes[i + 1].start

\* C10, amended: on such an input, when the time from the first frame to the
\* last timestamp is at least the minimum duration, exactly one note is
\* exported, from the first frame's time to the last timestamp, and none for
\* the invalid stretch; when it is shorter, nothing is exported.
C10_GapCoveredWhenLongEnough ==
    (pc = "written" /\ SameNoteAcrossGap) =>
        IF time[Len(time)] - time[1] >= MIN_MIDI_NOTE_MS
        THEN notes = << [velocity |-> 90,
                         pitch |-> note_name_to_midi(FrameNote(0)),
                         start |-> time[1],
                         end |-> time[Len(time)]] >>
        ELSE notes = <<>>

\* the example of the specification: A4 from 0.0, invalid from 0.05, A4 from
\* 0.08 to 0.30, minimum duration 0.1 s
C10_Witness ==
    /\ pc = "written"
    /\ MIN_MIDI_NOTE_MS = 100
    /\ time = <<0, 50, 80, 300>>
    /\ smoothed = <<445, 0, 445, 445>>
    /\ notes = << [velocity |-> 90, pitch |-> 69, start |-> 0, end |-> 300] >>

-----------------------------------------------------------------------------
(* 5) the two quantizers of the repository side by side: hz_to_note of
      test_crepe.py and AudioMonitor.pitch_to_note of monitoring.py *)

\* bounds of the frequencies and MIDI numbers handed to the quantizers
MinQuantHz == 17

MaxQuantHz == 2100

MaxQuantMidi == 120

\* the script's variables while another part of the repository runs, with
\* the script's knobs at the values the file assigns
ScriptOff(p) ==
    /\ pc = p
    /\ MIN_NOTE_MS = 80
    /\ MIN_MIDI_NOTE_MS = 200
    /\ time = <<>>
    /\ smoothed = <<>>
    /\ current_note = None
    /\ current_count = 0
    /\ current_start = None
    /\ printed = <<>>
    /\ raw_events = <<>>
    /\ events = <<>>
    /\ notes = <<>>
    /\ NoPipeline
    /\ NoTraffic

\* the invalid marker of pitch_to_note, "N/A"
NA == <<"N", "/", "A">>

\* the list notes of pitch_to_note
pitch_notes == << <<"C">>, <<"C", "#">>, <<"D">>, <<"D", "#">>, <<"E">>, <<"F">>,
                 <<"F", "#">>, <<"G">>, <<"G", "#">>, <<"A">>, <<"A", "#">>, <<"B">> >>

\* AudioMonitor.pitch_to_note on a frequency in mHz. half_steps + 9 is
\* 12 * log2(f / 440) + 9 = (69 + 12 * log2(f / 440)) - 60: the octave takes
\* its floor (// on a float), the note index its rounding.
pitch_to_note(frequency) ==
    IF frequency <= 0 THEN NA
    ELSE LET floor_steps == MidiFloorOfMilliHz(frequency) - 60
             round_steps == MidiOfMilliHz(frequency) - 60
             octave == 4 + (floor_steps \div 12)
             note_idx == round_steps % 12
         IN  pitch_notes[note_idx + 1] \o FormatInt(octave)

\* the frequencies tried, in mHz: whole numbers of Hz, the values -1 and 0,
\* and the centre frequency of every MIDI number from C0 on (the tabulated
\* value stands for the exact centre 440 * 2^((m - 69) / 12))
QuantInputs ==
    {-1000, 0} \cup {1000 * h : h \in MinQuantHz..MaxQuantHz}
               \cup {MidiCentre[m] : m \in 12..MaxQuantMidi}

\* both quantizers are applied to the same frequency
Quantize ==
    /\ pc = "quantize"
    /\ ~quant.done
    /\ quant' = [quant EXCEPT !.crepe = hz_to_note_milli(quant.f),
                              !.monitor = pitch_to_note(quant.f),
                              !.done = TRUE]
    /\ UNCHANGED <<scriptVars, pipelineVars, monitorVars, trafficVars>>

InitQuant ==
    /\ ScriptOff("quantize")
    /\ Constructed(4096)
    /\ \E f \in QuantInputs : quant = [NoQuant EXCEPT !.f = f]

NextQuant == Quantize

SpecQuant == InitQuant /\ [][NextQuant]_vars

\* the note of a MIDI number in twelve-tone equal temperament:
\* name = PITCH_CLASS[midi mod 12], octave = floor(midi / 12) - 1
EqualTemperedNote(midi) == NOTE_NAMES[(midi % 12) + 1] \o FormatInt((midi \div 12) - 1)

\* C16: for every frequency f > 0 both quantizers return the note of
\* midi = round(69 + 12 * log2(f / 440)), so they return the same symbol for
\* the same frequency; for f <= 0 both return their invalid marker.
C16_QuantizersAgree ==
    quant.done =>
        IF quant.f > 0
        THEN /\ quant.crepe = EqualTemperedNote(MidiOfMilliHz(quant.f))
             /\ quant.monitor = EqualTemperedNote(MidiOfMilliHz(quant.f))
             /\ quant.crepe = quant.monitor
        ELSE /\ quant.crepe = None
             /\ quant.monitor = NA

-----------------------------------------------------------------------------
(* 6) the zero-crossing estimator of monitoring.py,
      AudioMonitor.get_pitch_and_frequency, lines 145-182.

      A block is kept as its shape and two measures of its mono signal: the
      RMS in units of 0.00001 and the number of sign changes.  Frequencies
      are integers in mHz, rounded down. *)

\* the most calls of get_pitch_and_frequency in a row
MaxCalls == 6

RATE == 44100

\* the silence threshold 0.0001 of lines 155 and 290
RmsThreshold == 10

\* deque(maxlen=5)
PITCH_BUFFER_MAXLEN == 5

\* values of the CHUNK attribute: the 4096 of __init__ and 100 ms of samples
ChunkChoices == {4096, 4410}

\* Python's None where a number is expected is the empty sequence, a number
\* x is <<x>>
Some(x) == <<x>>

\* (zero_crossings / 2.0) * self.RATE / len(audio_data) in mHz
Frequency(zero_crossings, n) ==
    LET num == zero_crossings * RATE
        den == 2 * n
    IN  (num \div den) * 1000 + ((num % den) * 1000) \div den

\* 50 < frequency < 2000, on the exact quotient
ValidRange(zero_crossings, n) ==
    /\ 50 * 2 * n < zero_crossings * RATE
    /\ zero_crossings * RATE < 2000 * 2 * n

\* faulty variant: a deque without maxlen
DequeAppend_Unbounded(buffer, x) == Append(buffer, x)

\* append to a deque(maxlen=5): a full deque drops its oldest element
DequeAppend(buffer, x) ==
    IF Len(buffer) >= PITCH_BUFFER_MAXLEN
    THEN Append(Tail(buffer), x)
    ELSE Append(buffer, x)

\* x put before the first larger element of the sorted sequence s
RECURSIVE Insert(_, _)
Insert(s, x) ==
    IF s = <<>> THEN <<x>>
    ELSE IF x < Head(s) THEN <<x>> \o s
    ELSE <<Head(s)>> \o Insert(Tail(s), x)

\* sorted(list(self.pitch_buffer))
RECURSIVE sorted(_)
sorted(s) == IF s = <<>> THEN <<>> ELSE Insert(sorted(SubSeq(s, 1, Len(s) - 1)), s[Len(s)])

\* lines 148-149: a block with a second axis is averaged over its columns 0
\* and 1; a block with one column has no column 1
DownmixRaises(audio_data) == Len(audio_data.shape) > 1 /\ audio_data.shape[2] < 2

\* the block passes the silence test, the crossing count and the range test
Accepts(audio_data) ==
    /\ ~DownmixRaises(audio_data)
    /\ ~(audio_data.rms < RmsThreshold)
    /\ audio_data.crossings > 10
    /\ ValidRange(audio_data.crossings, audio_data.shape[1])

\* get_pitch_and_frequency: the return value, the exception raised (the
\* IndexError of line 149 is outside the try) and the pitch_buffer left behind
get_pitch_and_frequency(audio_data, buffer) ==
    IF DownmixRaises(audio_data)
    THEN [block |-> audio_data, raised |-> "IndexError", buffer |-> buffer,
          pitch |-> None, note |-> None, rms |-> 0]
    ELSE IF audio_data.rms < RmsThreshold
    THEN [block |-> audio_data, raised |-> "", buffer |-> buffer,
          pitch |-> None, note |-> None, rms |-> 0]
    ELSE IF audio_data.crossings > 10
            /\ ValidRange(audio_data.crossings, audio_data.shape[1])
    THEN LET frequency == Frequency(audio_data.crossings, audio_data.shape[1])
             new_buffer == DequeAppend(buffer, frequency)
             sorted_buffer == sorted(new_buffer)
             stable_pitch == sorted_buffer[(Len(sorted_buffer) \div 2) + 1]
         IN  [block |-> audio_data, raised |-> "", buffer |-> new_buffer,
              pitch |-> Some(stable_pitch), note |-> pitch_to_note(stable_pitch),
              rms |-> audio_data.rms]
    ELSE [block |-> audio_data, raised |-> "", buffer |-> buffer,
          pitch |-> None, note |-> None, rms |-> audio_data.rms]

\* what a call returns, without the buffer
Returned(r) == [block |-> r.block, raised |-> r.raised, pitch |-> r.pitch,
                note |-> r.note, rms |-> r.rms]

\* the blocks handed to the estimator: flat and two-dimensional ones, silent,
\* at the silence threshold and loud, with few and many sign changes
EstimatorBlocks(chunk) ==
    { [shape |-> <<chunk, 2>>, rms |-> 5, crossings |-> 87],
      [shape |-> <<chunk, 2>>, rms |-> 10, crossings |-> 82],
      [shape |-> <<chunk>>, rms |-> 20, crossings |-> 10],
      [shape |-> <<chunk>>, rms |-> 20, crossings |-> 11],
      [shape |-> <<chunk, 2>>, rms |-> 20, crossings |-> 87],
      [shape |-> <<chunk, 2>>, rms |-> 20, crossings |-> 371],
      [shape |-> <<chunk, 2>>, rms |-> 20, crossings |-> 400],
      [shape |-> <<chunk, 1>>, rms |-> 20, crossings |-> 82] }

\* one call of get_pitch_and_frequency
EstimateCall(audio_data) ==
    /\ pc = "estimate"
    /\ calls < MaxCalls
    /\ LET r == get_pitch_and_frequency(audio_data, pitch_buffer)
       IN  /\ pitch_buffer' = r.buffer
           /\ result' = Returned(r)
           /\ accepted' = IF Accepts(audio_data)
                          THEN Append(accepted, Frequency(audio_data.crossings,
                                                          audio_data.shape[1]))
                          ELSE accepted
    /\ calls' = calls + 1
    /\ UNCHANGED <<trafficVars, scriptVars, pipelineVars, quant,
                   CHUNK, channels, monitor_pc, raised,
                   audio_queue, last_sent_pitch, last_sent_time, clock, log,
                   sent, consumed, timeouts>>

Estimate == \E audio_data \in EstimatorBlocks(CHUNK) : EstimateCall(audio_data)

InitEstimator ==
    /\ ScriptOff("estimate")
    /\ quant = NoQuant
    /\ \E chunk \in ChunkChoices : Constructed(chunk)

NextEstimator == Estimate

SpecEstimator == InitEstimator /\ [][NextEstimator]_vars

\* the exact quotient lies in the closed range [50, 2000] Hz
ClosedRange(zero_crossings, n) ==
    /\ 50 * 2 * n <= zero_crossings * RATE
    /\ zero_crossings * RATE <= 2000 * 2 * n

LastN(s, n) == SubSeq(s, Len(s) - n + 1, Len(s))

Min(a, b) == IF a < b THEN a ELSE b

\* C19: pitch_buffer holds the most recent min(5, n) accepted estimates and
\* never more than 5 values; blocks that are silent or rejected leave it as
\* it is; for an accepted estimate the emitted pitch is the element at index
\* len // 2 of the sorted buffer after the estimate was appended, so it is one
\* of the buffered estimates.
C19_RollingMedian ==
    /\ Len(pitch_buffer) <= 5
    /\ pitch_buffer = LastN(accepted, Min(5, Len(accepted)))
    /\ calls > 0 =>
          /\ Accepts(result.block) <=> result.pitch # None
          /\ result.pitch # None =>
                LET p == result.pitch[1]
                    k == Len(pitch_buffer) \div 2
                    below == {i \in DOMAIN pitch_buffer : pitch_buffer[i] < p}
                    upto == {i \in DOMAIN pitch_buffer : pitch_buffer[i] <= p}
                IN  /\ \E i \in DOMAIN pitch_buffer : pitch_buffer[i] = p
                    /\ Cardinality(below) <= k
                    /\ k < Cardinality(upto)
                    /\ pitch_buffer[Len(pitch_buffer)] =
                           Frequency(result.block.crossings, result.block.shape[1])

\* a sixth accepted estimate has pushed the first one out, and the emitted
\* median is not the estimate of the last block
C19_Witness ==
    /\ Len(accepted) = 6
    /\ pitch_buffer = SubSeq(accepted, 2, 6)
    /\ accepted[1] # accepted[2]
    /\ result.pitch # None
    /\ result.pitch # Some(pitch_buffer[5])

-----------------------------------------------------------------------------
(* 7) AudioMonitor.start_monitoring, lines 240-333: the audio callback fills
      audio_queue from the capture thread, the consumer loop takes one block
      at a time, estimates, logs and sends the pitch when it has changed
      enough.  Times are integers in milliseconds. *)

\* the most blocks the capture stream delivers
MaxBlocks == 3

\* the most timeouts of audio_queue.get
MaxTimeouts == 2

PITCH_CHANGE_CENTS == 80

\* 0.3 s
MIN_SEND_INTERVAL == 300

\* 2^(PITCH_CHANGE_CENTS / 1200) = 1.0472941, in millionths: the frequency
\* ratio at which cents_diff is PITCH_CHANGE_CENTS
PitchChangeRatioPpm == 1047294

\* max_input_channels of the device select_device returns; 0 stands for no
\* device (select_device returns None)
DeviceChoices == {0, 1, 2, 6}

\* RMS and sign changes of the blocks the stream delivers: at the silence
\* threshold, loud with too few crossings, and loud at 441.4, 446.8 and
\* 468.3 Hz (21 and 102 cents above the first)
Signals ==
    { [rms |-> 10, crossings |-> 82], [rms |-> 20, crossings |-> 10],
      [rms |-> 20, crossings |-> 82], [rms |-> 20, crossings |-> 83],
      [rms |-> 20, crossings |-> 87] }

\* time from one read of time.time() in the loop to the next when a block is
\* waiting: about the 93 ms of a block; longer gaps come from timeouts
Elapsed == {100}

\* a / b in millionths, rounded down, for a >= b > 0
RatioPpm(a, b) ==
    LET r1 == a % b
        d1 == (r1 * 1000) \div b
        r2 == (r1 * 1000) % b
        d2 == (r2 * 1000) \div b
    IN  (a \div b) * 1000000 + d1 * 1000 + d2

\* cents_diff(a, b) > self.PITCH_CHANGE_CENTS, with
\* cents_diff(a, b) = abs(1200 * log2(a / b))
CentsDiffExceeds(a, b) ==
    IF a >= b THEN RatioPpm(a, b) > PitchChangeRatioPpm
    ELSE RatioPpm(b, a) > PitchChangeRatioPpm

\* send_pitch_udp: nothing for None, else the pitch formatted with two
\* decimals (kept in hundredths of a Hz) goes to sendto, which may fail
send_pitch_udp(datagrams, pitch, at, send_ok) ==
    IF pitch = None THEN datagrams
    ELSE Append(datagrams, [msg |-> PyRound(pitch[1], 10), at |-> at,
                            delivered |-> send_ok])

\* faulty variant: an exception of sendto leaves send_pitch_udp
SendOutcome_Propagate(send_ok) == IF send_ok THEN "returned" ELSE "raised"

\* lines 40-45: try ... except Exception: pass
SendOutcome(send_ok) == "returned"

\* log_data, lines 234-235: open and write without a try
LogOutcome(log_ok) == IF log_ok THEN "returned" ELSE "raised"

\* faulty variant: the loop gives up at the second timeout
TimeoutOutcome_GiveUp(earlier) == IF earlier >= 1 THEN "raised" ELSE "continue"

\* lines 320-321: except queue.Empty: continue, however many timeouts there
\* were earlier
TimeoutOutcome(earlier) == "continue"

\* faulty variant: a pitch that changed enough is sent at once
GatePasses_NoInterval(pitch, sent_pitch, sent_time, now) ==
    /\ pitch # None
    /\ \/ sent_pitch = None
       \/ CentsDiffExceeds(pitch[1], sent_pitch[1])

\* the branches of lines 298-311 that send
GatePasses(pitch, sent_pitch, sent_time, now) ==
    /\ pitch # None
    /\ \/ sent_pitch = None
       \/ /\ CentsDiffExceeds(pitch[1], sent_pitch[1])
          /\ (now - sent_time) > MIN_SEND_INTERVAL

\* the fields of the monitor that the loop body reads and writes
Self ==
    [audio_queue |-> audio_queue, pitch_buffer |-> pitch_buffer,
     last_sent_pitch |-> last_sent_pitch, last_sent_time |-> last_sent_time,
     log |-> log, sent |-> sent, raised |-> raised, result |-> result]

\* faulty variant: the debouncer follows every estimate, sent or not
NotSent_Track(self, pitch, now) ==
    IF pitch = None THEN self
    ELSE [self EXCEPT !.last_sent_pitch = pitch, !.last_sent_time = now]

\* lines 295-296 and the paths through lines 298-311 that send nothing: no
\* field of the monitor is assigned
NotSent(self, pitch, now) == self

\* the loop body of lines 283-311 after the block was taken from the queue
ProcessBlock(self, audio_data, now, log_ok, send_ok) ==
    LET r == get_pitch_and_frequency(audio_data, self.pitch_buffer)
        estimated == [self EXCEPT !.pitch_buffer = r.buffer, !.result = Returned(r)]
    IN  IF r.raised # "" THEN [estimated EXCEPT !.raised = r.raised]
        ELSE IF ~(r.rms > RmsThreshold) THEN estimated
        ELSE IF LogOutcome(log_ok) = "raised"
        THEN [estimated EXCEPT !.raised = "OSError in log_data"]
        ELSE LET logged == [estimated EXCEPT
                               !.log = Append(@, [pitch |-> r.pitch, note |-> r.note])]
             IN  IF ~GatePasses(r.pitch, self.last_sent_pitch, self.last_sent_time, now)
                 THEN NotSent(logged, r.pitch, now)
                 ELSE IF SendOutcome(send_ok) = "raised"
                 THEN [logged EXCEPT
                          !.sent = send_pitch_udp(@, r.pitch, now, send_ok),
                          !.raised = "OSError in sendto"]
                 ELSE [logged EXCEPT
                          !.sent = send_pitch_udp(@, r.pitch, now, send_ok),
                          !.last_sent_pitch = r.pitch,
                          !.last_sent_time = now]

\* faulty variant: the callback also empties the median buffer
audio_callback_Touch(self, indata) ==
    [self EXCEPT !.audio_queue = Append(@, indata), !.pitch_buffer = <<>>]

\* faulty variant: the new block goes to the head of the queue
audio_callback_Front(self, indata) ==
    [self EXCEPT !.audio_queue = <<indata>> \o @]

\* audio_callback, lines 139-143: self.audio_queue.put(indata.copy())
audio_callback(self, indata) == [self EXCEPT !.audio_queue = Append(@, indata)]

\* the monitor's fields become those of the record s
Becomes(s) ==
    /\ audio_queue' = s.audio_queue
    /\ pitch_buffer' = s.pitch_buffer
    /\ last_sent_pitch' = s.last_sent_pitch
    /\ last_sent_time' = s.last_sent_time
    /\ log' = s.log
    /\ sent' = s.sent
    /\ raised' = s.raised
    /\ result' = s.result

\* lines 243-259: the two start-up datagrams one second apart, both with the
\* network up or both with it down, then the device and the channel count of
\* the stream
Start(device, send_ok) ==
    /\ pc = "monitor"
    /\ monitor_pc = "constructed"
    /\ sent' = send_pitch_udp(send_pitch_udp(sent, Some(440000), clock, send_ok),
                              Some(440000), clock + 1000, send_ok)
    /\ clock' = clock + 1000
    /\ IF device = 0
       THEN monitor_pc' = "exited" /\ channels' = channels
       ELSE monitor_pc' = "listening" /\ channels' = Min(2, device)
    /\ UNCHANGED <<trafficVars, scriptVars, pipelineVars, quant,
                   CHUNK, raised, audio_queue, pitch_buffer,
                   last_sent_pitch, last_sent_time, log, result, accepted,
                   consumed, timeouts, calls>>

\* the capture thread delivers a block of CHUNK frames and channels columns
Callback(signal) ==
    /\ pc = "monitor"
    /\ monitor_pc = "listening"
    /\ Len(consumed) + Len(audio_queue) < MaxBlocks
    /\ Becomes(audio_callback(Self, [shape |-> <<CHUNK, channels>>,
                                     rms |-> signal.rms,
                                     crossings |-> signal.crossings]))
    /\ UNCHANGED <<trafficVars, scriptVars, pipelineVars, quant,
                   CHUNK, channels, monitor_pc, clock,
                   accepted, consumed, timeouts, calls>>

\* one pass of the loop body with a block in the queue; an exception other
\* than queue.Empty leaves the loop and is reported by line 330
Consume(dt, log_ok, send_ok) ==
    /\ pc = "monitor"
    /\ monitor_pc = "listening"
    /\ audio_queue # <<>>
    /\ LET audio_data == Head(audio_queue)
           now == clock + dt
           after == ProcessBlock([Self EXCEPT !.audio_queue = Tail(@)],
                                 audio_data, now, log_ok, send_ok)
       IN  /\ Becomes(after)
           /\ monitor_pc' = IF after.raised # "" THEN "stopped" ELSE "listening"
           /\ clock' = now
           /\ consumed' = Append(consumed, audio_data)
           /\ accepted' = IF Accepts(audio_data)
                          THEN Append(accepted, Frequency(audio_data.crossings,
                                                          audio_data.shape[1]))
                          ELSE accepted
    /\ calls' = calls + 1
    /\ UNCHANGED <<trafficVars, scriptVars, pipelineVars, quant,
                   CHUNK, channels, timeouts>>

\* audio_queue.get(timeout=1) on a queue that stays empty for a second
Timeout ==
    /\ pc = "monitor"
    /\ monitor_pc = "listening"
    /\ audio_queue = <<>>
    /\ timeouts < MaxTimeouts
    /\ timeouts' = timeouts + 1
    /\ clock' = clock + 1000
    /\ IF TimeoutOutcome(timeouts) = "continue"
       THEN monitor_pc' = "listening" /\ raised' = raised
       ELSE monitor_pc' = "stopped" /\ raised' = "queue.Empty"
    /\ UNCHANGED <<trafficVars, scriptVars, pipelineVars, quant,
                   CHUNK, channels, audio_queue, pitch_buffer,
                   last_sent_pitch, last_sent_time, log, sent, result, accepted,
                   consumed, calls>>

StartStep == \E device \in DeviceChoices, send_ok \in BOOLEAN : Start(device, send_ok)

CallbackStep == \E signal \in Signals : Callback(signal)

ConsumeStep == \E dt \in Elapsed, log_ok, send_ok \in BOOLEAN : Consume(dt, log_ok, send_ok)

InitMonitor ==
    /\ ScriptOff("monitor")
    /\ quant = NoQuant
    /\ Constructed(4096)

NextMonitor == StartStep \/ CallbackStep \/ ConsumeStep \/ Timeout

SpecMonitor == InitMonitor /\ [][NextMonitor]_vars

\* a pass of the loop body that takes a block: the only step of the monitor
\* that calls the estimator (it is ConsumeStep with its effects left out)
TakesBlock ==
    /\ pc = "monitor"
    /\ monitor_pc = "listening"
    /\ audio_queue # <<>>
    /\ calls' = calls + 1

\* the consumer loop of lines 280-323 runs in the main thread and blocks in
\* audio_queue.get for at most a second: while a block waits and the loop has
\* not been left, it takes the block
SpecMonitorFair == SpecMonitor /\ WF_calls(TakesBlock)

\* C11: for a block with a pitch estimate, a gated send happens iff no pitch
\* was sent before, or the new pitch is more than PITCH_CHANGE_CENTS away from
\* the last sent one and more than MIN_SEND_INTERVAL has passed since.
C11_SendIffGate ==
    [][ (calls' = calls + 1 /\ result'.pitch # None) =>
            ( Len(sent') = Len(sent) + 1
              <=> \/ last_sent_pitch = None
                  \/ /\ CentsDiffExceeds(result'.pitch[1], last_sent_pitch[1])
                     /\ clock' - last_sent_time > MIN_SEND_INTERVAL ) ]_vars

\* C12: a failure of the log write never ends the consumer loop.
C12_LogFailureDiscarded == ~(monitor_pc = "stopped" /\ raised = "OSError in log_data")

\* C13: a step of the loop whose datagram could not be sent leaves the loop
\* running, with no exception from send_pitch_udp.
C13_SendFailureSwallowed ==
    [][ ( /\ monitor_pc = "listening"
          /\ Len(sent') = Len(sent) + 1
          /\ ~sent'[Len(sent')].delivered )
        => (monitor_pc' = "listening" /\ raised' = "") ]_vars

\* the first gated datagram was not delivered, and the loop has logged
\* another block after it
C13_Witness ==
    /\ monitor_pc = "listening"
    /\ Len(sent) >= 3
    /\ ~sent[3].delivered
    /\ Len(log) >= 2
    /\ log[1].pitch # None

\* C14: a timeout of the queue leaves the loop running: nothing is logged or
\* sent and pitch_buffer, last_sent_pitch and last_sent_time stay as they
\* are, however many timeouts came before.
C14_TimeoutRepolls ==
    [][ timeouts' = timeouts + 1 =>
            /\ monitor_pc' = "listening"
            /\ raised' = ""
            /\ UNCHANGED <<log, sent, pitch_buffer, last_sent_pitch,
                           last_sent_time, audio_queue, consumed>> ]_vars

\* two timeouts in a row right after the start, then a block is processed
\* and its pitch sent
C14_Witness ==
    /\ monitor_pc = "listening"
    /\ timeouts = 2
    /\ Len(sent) = 3
    /\ sent[3].at = 3100

\* pitch_buffer after the blocks were given to the estimator one by one
RECURSIVE ReplayBuffer(_)
ReplayBuffer(blocks) ==
    IF blocks = <<>> THEN <<>>
    ELSE get_pitch_and_frequency(blocks[Len(blocks)],
                                 ReplayBuffer(SubSeq(blocks, 1, Len(blocks) - 1))).buffer

\* C15: a step that puts a block in the queue changes nothing else of the
\* monitor; pitch_buffer, last_sent_pitch and last_sent_time change only in
\* a step that takes the head of the queue, and pitch_buffer is what
\* estimating the consumed blocks one after another gives.
C15_CallbackOnlyEnqueues ==
    [][ /\ Len(audio_queue') > Len(audio_queue) =>
              /\ SubSeq(audio_queue', 1, Len(audio_queue)) = audio_queue
              /\ Len(audio_queue') = Len(audio_queue) + 1
              /\ UNCHANGED <<pitch_buffer, last_sent_pitch, last_sent_time,
                             sent, log, consumed>>
        /\ <<pitch_buffer, last_sent_pitch, last_sent_time>>'
               # <<pitch_buffer, last_sent_pitch, last_sent_time>> =>
              /\ audio_queue # <<>>
              /\ audio_queue' = Tail(audio_queue)
              /\ consumed' = Append(consumed, Head(audio_queue))
        /\ consumed' # consumed => pitch_buffer' = ReplayBuffer(consumed') ]_vars

\* blocks are waiting in the queue while the consumer holds a buffered
\* estimate and a sent pitch
C15_Witness ==
    /\ monitor_pc = "listening"
    /\ Len(audio_queue) >= 2
    /\ Len(pitch_buffer) = 1
    /\ last_sent_pitch = Some(pitch_buffer[1])

\* C20: a block with any channel count >= 1 is processed without raising.
C20_AnyChannelCountProcessed == ~(monitor_pc = "stopped" /\ raised = "IndexError")

-----------------------------------------------------------------------------
(* 8) test_crepe.py from its first line to its last: crepe's raw output is
      masked by confidence and smoothed (lines 49-60), the online loop reads
      the smoothed array (lines 62-84), then the batch loop reads the same
      array again (lines 102-128) and its events are flushed, filtered and
      written.  Here time and smoothed hold the whole arrays and frame counts
      the frames the running loop has read. *)

\* longest trajectory crepe.predict returns
MaxScriptFrames == 6

\* line 13, in percent
CONF_THRESHOLD == 80

\* SMOOTH_MS as the file assigns it (60, an even window of 6 frames) and an
\* odd window of 3 frames
SmoothMsChoices == {30, 60}

\* MIN_NOTE_MS short enough for a trajectory of MaxScriptFrames frames to
\* hold a stable run
ScriptMinNoteMsChoices == {20, 30}

\* one frame of crepe.predict, <<frequency, confidence>>: a confident frame,
\* a frame exactly at the threshold and a frame below it.  Every mean of up
\* to six of the frequencies is a whole number of Hz.
CrepeFrames == {<<420, 90>>, <<480, 80>>, <<420, 50>>}

Max(a, b) == IF a >= b THEN a ELSE b

\* line 16
SMOOTH_FRAMES == Max(1, PyRound(SMOOTH_MS, STEP_MS))

\* line 51: freq[confidence < CONF_THRESHOLD] = np.nan, and line 55: valid is
\* 1.0 where freq is finite (i counts from 0)
Valid(i) == ~(crepe_confidence[i + 1] < CONF_THRESHOLD)

\* line 56: freq_filled, NaN replaced by 0.0
FreqFilled(i) == IF Valid(i) THEN crepe_frequency[i + 1] ELSE 0

\* faulty variant: the window reaches as far ahead of i as behind it
SameWindow_Centred(i, n, m) ==
    {j \in 0..(n - 1) : i - m \div 2 <= j /\ j <= i + m \div 2}

\* np.convolve(a, np.ones(m), mode="same") with len(a) = n: the frames that
\* entry i of the result sums.  The result has max(n, m) entries, entry i
\* being entry i + (min(n, m) - 1) // 2 of the full convolution, which sums
\* a[j] over the j with 0 <= (that index) - j < m.
SameWindow(i, n, m) ==
    LET c == (Min(n, m) - 1) \div 2
    IN  {j \in 0..(n - 1) : i + c - m + 1 <= j /\ j <= i + c}

RECURSIVE SumOver(_, _)
\* the sum of a[j] over the finite set of indices js
SumOver(a, js) ==
    IF js = {} THEN 0
    ELSE LET j == CHOOSE k \in js : TRUE
         IN  a[j] + SumOver(a, js \ {j})

ValidCount(j) == IF Valid(j) THEN 1 ELSE 0

\* lines 58-60: entry i of smoothed.  An empty count divides by 1e-9, and the
\* numerator is then 0.
SmoothedAt(i) ==
    LET w == SameWindow(i, Len(crepe_frequency), SMOOTH_FRAMES)
        total == SumOver([j \in w |-> FreqFilled(j)], w)
        count == SumOver([j \in w |-> ValidCount(j)], w)
    IN  IF count = 0 THEN 0 ELSE total \div count

\* lines 50-60
Smooth ==
    /\ pc = "smooth"
    /\ pc' = "online_loop"
    /\ smoothed' = [i \in 1..Max(Len(crepe_frequency), SMOOTH_FRAMES) |->
                       SmoothedAt(i - 1)]
    /\ UNCHANGED <<MIN_NOTE_MS, MIN_MIDI_NOTE_MS, time, current_note,
                   current_count, current_start, printed, raw_events, events,
                   notes>>
    /\ UNCHANGED otherVars

\* zip(time, smoothed) of lines 66 and 109 stops with the shorter array
ZipLen == Min(Len(time), Len(smoothed))

\* one iteration of the loop of line 66 on frame number `frame` of the arrays
ScriptOnlineFrame ==
    /\ pc = "online_loop"
    /\ frame < ZipLen
    /\ LET t == time[frame + 1]
           f == smoothed[frame + 1]
           note == hz_to_note(f)
           run == IF Invalid(f)
                  THEN OnlineAfterInvalid(current_note, current_count)
                  ELSE IF note = None
                  THEN <<current_note, current_count>>
                  ELSE OnlineAfterValid(current_note, current_count, note)
       IN  /\ current_note' = run[1]
           /\ current_count' = run[2]
           /\ printed' = IF ~Invalid(f) /\ note # None /\ Accept(run[2])
                         THEN Append(printed, PrintedLine(frame, t, note))
                         ELSE printed
           /\ online_state' = Append(online_state, run)
    /\ frame' = frame + 1
    /\ UNCHANGED <<pc, MIN_NOTE_MS, MIN_MIDI_NOTE_MS, time, smoothed,
                   current_start, raw_events, events, notes>>
    /\ UNCHANGED <<SMOOTH_MS, crepe_frequency, crepe_confidence, quant,
                   monitorVars, trafficVars>>

\* the online loop is exhausted; lines 103-106 set up the batch loop
BatchSetup ==
    /\ pc = "online_loop"
    /\ frame = ZipLen
    /\ pc' = "batch_loop"
    /\ frame' = 0
    /\ events' = <<>>
    /\ current_note' = None
    /\ current_start' = None
    /\ current_count' = 0
    /\ UNCHANGED <<MIN_NOTE_MS, MIN_MIDI_NOTE_MS, time, smoothed, printed,
                   raw_events, notes>>
    /\ UNCHANGED <<SMOOTH_MS, crepe_frequency, crepe_confidence, online_state,
                   quant, monitorVars, trafficVars>>

\* one iteration of the loop of line 109 on frame number `frame` of the arrays
ScriptBatchFrame ==
    /\ pc = "batch_loop"
    /\ frame < ZipLen
    /\ LET t == time[frame + 1]
           f == smoothed[frame + 1]
           note == hz_to_note(f)
           st == IF Invalid(f)
                 THEN BatchAfterInvalid(current_note, current_start, current_count,
                                        events, t)
                 ELSE IF note = None
                 THEN [note |-> current_note, start |-> current_start,
                       count |-> current_count, events |-> events]
                 ELSE BatchAfterValid(current_note, current_start, current_count,
                                      events, t, note)
       IN  /\ current_note' = st.note
           /\ current_start' = st.start
           /\ current_count' = st.count
           /\ events' = st.events
    /\ frame' = frame + 1
    /\ UNCHANGED <<pc, MIN_NOTE_MS, MIN_MIDI_NOTE_MS, time, smoothed, printed,
                   raw_events, notes>>
    /\ UNCHANGED <<SMOOTH_MS, crepe_frequency, crepe_confidence, online_state,
                   quant, monitorVars, trafficVars>>

\* the batch loop is exhausted; the flush of line 130 comes next
BatchExhausted ==
    /\ pc = "batch_loop"
    /\ frame = ZipLen
    /\ pc' = "batch"
    /\ UNCHANGED <<MIN_NOTE_MS, MIN_MIDI_NOTE_MS, time, smoothed, current_note,
                   current_count, current_start, printed, raw_events, events,
                   notes>>
    /\ UNCHANGED otherVars

\* line 32: crepe.predict(step_size=10) returns arrays of one length, frame i
\* at time i * 10 ms
InitScript ==
    /\ pc = "smooth"
    /\ MIN_NOTE_MS \in ScriptMinNoteMsChoices
    /\ MIN_MIDI_NOTE_MS = 200
    /\ SMOOTH_MS \in SmoothMsChoices
    /\ \E n \in 1..MaxScriptFrames : \E frames \in [1..n -> CrepeFrames] :
          /\ time = [i \in 1..n |-> (i - 1) * STEP_MS]
          /\ crepe_frequency = [i \in 1..n |-> frames[i][1]]
          /\ crepe_confidence = [i \in 1..n |-> frames[i][2]]
    /\ smoothed = <<>>
    /\ current_note = None
    /\ current_count = 0
    /\ current_start = None
    /\ printed = <<>>
    /\ raw_events = <<>>
    /\ events = <<>>
    /\ notes = <<>>
    /\ frame = 0
    /\ online_state = <<>>
    /\ quant = NoQuant
    /\ Constructed(4096)
    /\ NoTraffic

NextScript ==
    \/ Smooth
    \/ ScriptOnlineFrame
    \/ BatchSetup
    \/ ScriptBatchFrame
    \/ BatchExhausted
    \/ Flush
    \/ GhostFilter
    \/ WriteNotes

SpecScript == InitScript /\ [][NextScript]_vars

\* every mean the smoothing forms is a whole number of Hz
ScriptMeansWhole ==
    pc # "smooth" =>
        \A i \in 0..(Len(crepe_frequency) - 1) :
            LET w == SameWindow(i, Len(crepe_frequency), SMOOTH_FRAMES)
                total == SumOver([j \in w |-> FreqFilled(j)], w)
                count == SumOver([j \in w |-> ValidCount(j)], w)
            IN  count > 0 => total % count = 0

-----------------------------------------------------------------------------
(* The smoothing and the loops of the whole script against crepe's output *)

\* the frames from i - h to i + h that the arrays hold
Centred(i, h) == {j \in 0..(Len(crepe_frequency) - 1) : i - h <= j /\ j <= i + h}

\* v is the sum of the valid frequencies of the frames w divided by the
\* number of valid frames of w, and 0 exactly when w holds no valid frame
IsValidMean(v, w) ==
    LET total == SumOver([j \in w |-> FreqFilled(j)], w)
        count == SumOver([j \in w |-> ValidCount(j)], w)
    IN  /\ v * count = total
        /\ (v = 0) <=> (count = 0)

\* C21: with the configured SMOOTH_FRAMES (6), every smoothed[i] is the mean
\* of the valid frequencies of a window placed symmetrically around i, as many
\* frames before i as after it and truncated at the array ends, and it is 0
\* exactly when that window holds no valid frame.  Any half-width of the
\* window is allowed for, as long as it is the same at every index.
C21_SmoothedIsCentredMean ==
    (pc # "smooth" /\ SMOOTH_FRAMES = 6) =>
        \E h \in 0..SMOOTH_FRAMES :
            \A i \in 0..(Len(crepe_frequency) - 1) :
                IsValidMean(smoothed[i + 1], Centred(i, h))

\* the online loop has just processed frame i of the arrays
OnlineProcessed(i) == pc = "online_loop" /\ frame = i + 1

LowConfidence(i) == crepe_confidence[i + 1] < CONF_THRESHOLD

\* the sum of the valid frequencies of the frames w divided by the number of
\* valid frames of w, which is at least one
ValidMean(w) ==
    SumOver([j \in w |-> FreqFilled(j)], w) \div SumOver([j \in w |-> ValidCount(j)], w)

\* C22: every frame whose confidence is below CONF_THRESHOLD resets the run
\* state of the online loop when it is processed (current_note = none,
\* count = 0), whatever the validity of the frames around it.
C22_LowConfidenceAlwaysResets ==
    \A i \in 0..(Len(crepe_frequency) - 1) :
        (OnlineProcessed(i) /\ LowConfidence(i)) =>
            (current_note = None /\ current_count = 0)

\* the frames from SMOOTH_FRAMES // 2 before i to (SMOOTH_FRAMES - 1) // 2
\* after i that the arrays hold
Neighbourhood(i) ==
    {j \in 0..(Len(crepe_frequency) - 1) :
        /\ i - SMOOTH_FRAMES \div 2 <= j
        /\ j <= i + (SMOOTH_FRAMES - 1) \div 2}

\* C22 as amended: in a trajectory of at least SMOOTH_FRAMES frames, a frame
\* whose confidence is below CONF_THRESHOLD resets the run state of the online
\* loop exactly when no frame from SMOOTH_FRAMES // 2 before it to
\* (SMOOTH_FRAMES - 1) // 2 after it is valid; otherwise the loop processes it
\* as a valid frame, the run state holding the note of the mean of the valid
\* frequencies of those frames.
C22_LowConfidenceResetsWhenAlone ==
    \A i \in 0..(Len(crepe_frequency) - 1) :
        (/\ OnlineProcessed(i)
         /\ LowConfidence(i)
         /\ Len(crepe_frequency) >= SMOOTH_FRAMES) =>
            IF \A j \in Neighbourhood(i) : LowConfidence(j)
            THEN current_note = None /\ current_count = 0
            ELSE /\ current_count >= 1
                 /\ current_note = hz_to_note(ValidMean(Neighbourhood(i)))

\* a frame below the threshold between confident frames has just extended a
\* run of the online loop
C22_Witness ==
    \E i \in 1..(Len(crepe_frequency) - 1) :
        /\ OnlineProcessed(i)
        /\ LowConfidence(i)
        /\ ~LowConfidence(i - 1)
        /\ Len(crepe_frequency) >= SMOOTH_FRAMES
        /\ current_note # None
        /\ current_count >= 2

\* the batch loop has just processed frame i of the arrays
BatchProcessed(i) == pc = "batch_loop" /\ frame = i + 1

\* C23: after each processed frame the batch loop's (current_note,
\* current_count) equals the online loop's (current_note, current_count)
\* after the same frame.
C23_SameRunState ==
    \A i \in 0..(ZipLen - 1) :
        BatchProcessed(i) => <<current_note, current_count>> = online_state[i + 1]

\* the frames up to frame i that the loops take as valid
ValidUpTo(i) == {j \in 0..i : ~Invalid(smoothed[j + 1])}

\* the note of the last valid frame up to frame i, none when there is none
LastValidNote(i) ==
    IF ValidUpTo(i) = {} THEN None
    ELSE hz_to_note(smoothed[(CHOOSE j \in ValidUpTo(i) :
                                 \A k \in ValidUpTo(i) : k <= j) + 1])

\* C23 as amended: after each processed frame the two loops hold the same
\* current_count; they hold the same current_note after a valid frame, and
\* after an invalid frame the online loop holds none while the batch loop
\* still holds the note of the last valid frame (none when there was none).
C23_SameCountNoteKeptByBatch ==
    \A i \in 0..(ZipLen - 1) :
        BatchProcessed(i) =>
            /\ current_count = online_state[i + 1][2]
            /\ current_note = LastValidNote(i)
            /\ online_state[i + 1][1] =
                  IF Invalid(smoothed[i + 1]) THEN None ELSE LastValidNote(i)

\* the batch loop has read a valid frame, an invalid one that left it the
\* note the online loop dropped, and a valid frame again
C23_Witness ==
    \E i \in 2..(ZipLen - 1) :
        /\ BatchProcessed(i)
        /\ ~Invalid(smoothed[i + 1])
        /\ Invalid(smoothed[i])
        /\ online_state[i][1] = None
        /\ current_note # None
        /\ ValidUpTo(i - 2) # {}

\* C28: each emission of the online loop (note N at frame time t) falls
\* inside a raw batch event of the same note: the raw event list holds an
\* event (N, start, end) with start <= t <= end.
C28_EmissionInsideRawEvent ==
    pc \in {"flushed", "filtered", "written"} =>
        \A k \in DOMAIN printed :
            \E e \in DOMAIN raw_events :
                /\ raw_events[e].note = printed[k].note
                /\ raw_events[e].start <= printed[k].t
                /\ printed[k].t <= raw_events[e].end

\* the online loop has emitted two notes, the first one not at the start of
\* its raw event and not in the last raw event
C28_Witness ==
    /\ pc = "flushed"
    /\ Len(printed) >= 2
    /\ Len(raw_events) >= 2
    /\ printed[1].t > raw_events[1].start
    /\ printed[1].t < raw_events[1].end
    /\ printed[1].note = raw_events[1].note
    /\ printed[2].note # printed[1].note

-----------------------------------------------------------------------------
(* The monitor's datagrams, debouncer and queue over a whole run *)

IsDelivered(d) == d.delivered

\* the datagrams that reached the wire, in order
Wire == SelectSeq(sent, IsDelivered)

\* C25: any two consecutive datagrams put on the wire over a whole run, the
\* start-up ones included, are more than MIN_SEND_INTERVAL apart and carry
\* pitches that differ by more than PITCH_CHANGE_CENTS cents.
C25_AllDatagramsSpaced ==
    \A k \in 1..(Len(Wire) - 1) :
        /\ Wire[k + 1].at - Wire[k].at > MIN_SEND_INTERVAL
        /\ CentsDiffExceeds(Wire[k + 1].msg, Wire[k].msg)

\* C25 as amended: every datagram the consumer loop hands to sendto after
\* its first one comes more than MIN_SEND_INTERVAL after the loop's previous
\* datagram and is formatted from a pitch more than PITCH_CHANGE_CENTS cents
\* away from the pitch the previous one was formatted from.  The two start-up
\* datagrams are the first two entries of sent.
C25_GatedDatagramsSpaced ==
    [][ (monitor_pc = "listening" /\ Len(sent) >= 3 /\ Len(sent') = Len(sent) + 1) =>
            /\ sent'[Len(sent')].at - sent[Len(sent)].at > MIN_SEND_INTERVAL
            /\ sent[Len(sent)].msg = PyRound(last_sent_pitch[1], 10)
            /\ sent'[Len(sent')].msg = PyRound(result'.pitch[1], 10)
            /\ CentsDiffExceeds(result'.pitch[1], last_sent_pitch[1]) ]_vars

\* the loop has sent two datagrams after the two start-up ones, and all four
\* reached the wire
C25_Witness ==
    /\ Len(sent) = 4
    /\ \A k \in 1..4 : sent[k].delivered
    /\ sent[1].msg = sent[2].msg
    /\ sent[4].msg # sent[3].msg

\* C26: (last_sent_pitch, last_sent_time) change only in a step that performs
\* a gated send, and then become the sent pitch and the time of that step; a
\* block with no pitch, or one that fails the cents or the interval test,
\* leaves both unchanged.
C26_DebouncerFrame ==
    [][ /\ <<last_sent_pitch, last_sent_time>>' # <<last_sent_pitch, last_sent_time>> =>
              /\ calls' = calls + 1
              /\ Len(sent') = Len(sent) + 1
        /\ (calls' = calls + 1 /\ Len(sent') = Len(sent) + 1) =>
              /\ result'.pitch # None
              /\ last_sent_pitch' = result'.pitch
              /\ last_sent_time' = clock'
              /\ sent'[Len(sent')].at = clock'
        /\ ( /\ calls' = calls + 1
             /\ \/ result'.pitch = None
                \/ /\ last_sent_pitch # None
                   /\ \/ ~CentsDiffExceeds(result'.pitch[1], last_sent_pitch[1])
                      \/ ~(clock' - last_sent_time > MIN_SEND_INTERVAL) ) =>
              UNCHANGED <<last_sent_pitch, last_sent_time, sent>> ]_vars

\* after a sent pitch, a block 21 cents higher was logged and not sent, and
\* the debouncer still holds the sent pitch and its time
C26_Witness ==
    /\ monitor_pc = "listening"
    /\ Len(sent) = 3
    /\ Len(log) = 2
    /\ result.pitch # None
    /\ result.pitch # last_sent_pitch
    /\ last_sent_time = sent[3].at
    /\ sent[3].msg = PyRound(last_sent_pitch[1], 10)

\* every block the callback has enqueued so far, in enqueue order
Enqueued == consumed \o audio_queue

\* C27: every enqueued block is dequeued and given to the estimator exactly
\* once and in enqueue order under every interleaving, and, with a fair
\* consumer, every enqueued block is eventually processed unless the loop has
\* terminated.
C27_QueueFifoAndDrained ==
    /\ [][ /\ \/ Enqueued' = Enqueued
              \/ /\ Len(Enqueued') = Len(Enqueued) + 1
                 /\ SubSeq(Enqueued', 1, Len(Enqueued)) = Enqueued
                 /\ consumed' = consumed
           /\ consumed' # consumed =>
                 /\ audio_queue # <<>>
                 /\ consumed' = Append(consumed, Head(audio_queue))
                 /\ audio_queue' = Tail(audio_queue)
                 /\ calls' = calls + 1
                 /\ result'.block = Head(audio_queue)
           /\ calls' # calls => consumed' # consumed ]_vars
    /\ \A k \in 1..MaxBlocks :
          (Len(Enqueued) >= k) ~> (Len(consumed) >= k \/ monitor_pc # "listening")

\* one block was processed while two different ones wait behind it
C27_Witness ==
    /\ monitor_pc = "listening"
    /\ Len(consumed) = 1
    /\ Len(audio_queue) = 2
    /\ audio_queue[1] # audio_queue[2]
    /\ consumed[1] # audio_queue[1]
    /\ result.block = consumed[1]

-----------------------------------------------------------------------------
(* 9) the note symbol on its way into the MIDI file: hz_to_note formats it
      (lines 41-47) and note_name_to_midi parses it again (lines 97-100, called
      on line 151) *)

\* bounds of the frequencies and MIDI numbers whose symbols are exported
MinExportHz == 8

MaxExportHz == 64

MaxExportMidi == 134

\* the exception note_name_to_midi raises on note, "" when it returns
note_name_to_midi_raises(note) ==
    LET name == SubSeq(note, 1, Len(note) - 1)
        last == note[Len(note)]
    IN  IF ~(\E d \in DOMAIN Digit : Digit[d] = last) THEN "ValueError"
        ELSE IF name \notin DOMAIN NOTE_TO_MIDI THEN "KeyError"
        ELSE ""

\* line 151: midi_note = note_name_to_midi(note)
Exported(note) ==
    IF note_name_to_midi_raises(note) # ""
    THEN [raised |-> note_name_to_midi_raises(note), midi |-> None]
    ELSE [raised |-> "", midi |-> <<note_name_to_midi(note)>>]

\* the frequencies tried, in mHz: whole numbers of Hz from the octave below
\* C0 on, and the centre frequency of every MIDI number of the tables
ExportInputs ==
    {1000 * h : h \in MinExportHz..MaxExportHz}
        \cup {MidiCentre[m] : m \in MidiLo..MaxExportMidi}

\* a frequency is quantized and its symbol parsed for the MIDI file
ExportNote ==
    /\ pc = "export"
    /\ ~quant.done
    /\ quant' = [quant EXCEPT !.crepe = hz_to_note_milli(quant.f),
                              !.export = Exported(hz_to_note_milli(quant.f)),
                              !.done = TRUE]
    /\ UNCHANGED <<scriptVars, pipelineVars, monitorVars, trafficVars>>

InitExport ==
    /\ ScriptOff("export")
    /\ Constructed(4096)
    /\ \E f \in ExportInputs : quant = [NoQuant EXCEPT !.f = f]

NextExport == ExportNote

SpecExport == InitExport /\ [][NextExport]_vars

\* C31: for every note symbol hz_to_note returns, octaves below 0 and above 9
\* included, note_name_to_midi returns without error the MIDI number
\* round(69 + 12 * log2(f / 440)) the symbol was derived from.
C31_ExportRoundTrip ==
    quant.done =>
        /\ quant.export.raised = ""
        /\ quant.export.midi = <<MidiOfMilliHz(quant.f)>>

-----------------------------------------------------------------------------
(* 10) the visualizer src/music/app.py: poll_socket turns a received
       frequency into a point of the spiral (hz_to_point_index, lines 32-43)
       and draw_spiral shows the point's name (point_to_note_name,
       lines 46-50).  Frequencies are integers in mHz. *)

\* hz_to_point_index.  round(12 * log2(hz / 440) + 33) steps from p - 1 to p
\* at 440 * 2^((p - 33.5) / 12), the edge of MIDI number p + 36; outside the
\* tables the point is far outside 0..47 and clamped all the same.
hz_to_point_index(mhz) ==
    IF mhz <= 0 THEN 0
    ELSE Max(0, Min(47, MidiOfMilliHz(mhz) - 36))

\* faulty variant: the spiral is taken to start at octave 3
point_to_note_name_FromC3(point) ==
    NOTE_NAMES[(point % 12) + 1] \o FormatInt((point \div 12) + 3)

\* point_to_note_name; NOTE_NAMES of app.py line 26 is the list of
\* test_crepe.py
point_to_note_name(point) ==
    NOTE_NAMES[(point % 12) + 1] \o FormatInt((point \div 12) + 2)

\* lines 101-104 and 85 on one received frequency, next to hz_to_note on the
\* same frequency
Visualize ==
    /\ pc = "visualize"
    /\ ~quant.done
    /\ quant' = [quant EXCEPT
                    !.crepe = hz_to_note_milli(quant.f),
                    !.point = <<hz_to_point_index(quant.f)>>,
                    !.shown = point_to_note_name(hz_to_point_index(quant.f)),
                    !.done = TRUE]
    /\ UNCHANGED <<scriptVars, pipelineVars, monitorVars, trafficVars>>

InitVisualizer ==
    /\ ScriptOff("visualize")
    /\ Constructed(4096)
    /\ \E f \in QuantInputs : quant = [NoQuant EXCEPT !.f = f]

NextVisualizer == Visualize

SpecVisualizer == InitVisualizer /\ [][NextVisualizer]_vars

\* C32: for every received frequency the point index is in 0..47 (0 for
\* hz <= 0); for every frequency whose nearest note lies in C2..B5 the name
\* shown is the symbol hz_to_note gives for the same frequency, and
\* frequencies below C2 show C2, frequencies above B5 show B5.
C32_VisualizerShowsNote ==
    quant.done =>
        /\ quant.point[1] \in 0..47
        /\ quant.f <= 0 => quant.point[1] = 0
        /\ quant.f > 0 =>
              LET midi == MidiOfMilliHz(quant.f)
              IN  /\ (36 <= midi /\ midi <= 83) =>
                        /\ quant.shown = quant.crepe
                        /\ quant.shown = EqualTemperedNote(midi)
                  /\ midi < 36 => quant.shown = <<"C", "2">>
                  /\ midi > 83 => quant.shown = <<"B", "5">>

\* 466 Hz is shown as A#4 at point 34
C32_Witness ==
    /\ quant.done
    /\ quant.f = 466000
    /\ quant.point = <<34>>
    /\ quant.shown = <<"A", "#", "4">>
    /\ quant.crepe = quant.shown

-----------------------------------------------------------------------------
(* 11) the adaptive traffic light controller: src/traffic/controller.py, and
       the same class in simple_intersection/traffic_controller.py and
       traffic_controller_libsumo.py with the knobs as class constants.  The
       simulator behind traci is the environment: it moves the time on by one
       second a step, runs the signal program of the junction by itself,
       and reports the halting vehicles of every lane.  Times are whole
       seconds. *)

\* bounds: the steps of a run (SIMULATION_STEPS), the halting vehicles a lane
\* reports and the vehicles that reach the end of their route
MaxSimSteps == 4

MaxHalting == 2

MaxArrived == 1

\* traci.trafficlight.getControlledLanes: one entry per controlled link, so a
\* lane with two links is listed twice
controlled_lanes == <<"n_0", "n_0", "e_0", "e_0">>

\* traci.lane.getEdgeID
getEdgeID(lane) == IF lane = "n_0" THEN "n" ELSE "e"

\* set(self.controlled_lanes) without the empty lane IDs
Lanes == {controlled_lanes[i] : i \in DOMAIN controlled_lanes} \ {""}

\* a signal program of the junction: green and yellow for the north approach,
\* then green and yellow for the east approach
FourPhase(green, yellow) ==
    << [state |-> <<"G", "G", "r", "r">>, duration |-> green],
       [state |-> <<"y", "y", "r", "r">>, duration |-> yellow],
       [state |-> <<"r", "r", "G", "G">>, duration |-> green],
       [state |-> <<"r", "r", "y", "y">>, duration |-> yellow] >>

\* a signal program without yellow phases
TwoPhase(green) ==
    << [state |-> <<"G", "G", "r", "r">>, duration |-> green],
       [state |-> <<"r", "r", "G", "G">>, duration |-> green] >>

\* the programs tried: one whose phases outlast the run, so that only the
\* controller switches, and one the simulator moves on by itself
Programs == {TwoPhase(42), FourPhase(3, 1)}

\* the configurations tried, as controller.py loads them from JSON (lines
\* 62-65 take any value); the second has its minimum above its maximum
Configs ==
    { [MIN_GREEN_TIME |-> 2, MAX_GREEN_TIME |-> 4, QUEUE_THRESHOLD |-> 1],
      [MIN_GREEN_TIME |-> 3, MAX_GREEN_TIME |-> 2, QUEUE_THRESHOLD |-> 1] }

\* len(traci.trafficlight.getAllProgramLogics(tl_id)[0].phases)
phase_count(s) == Len(s.program)

\* traci.trafficlight.getRedYellowGreenState
getRedYellowGreenState(s) == s.program[s.phase + 1].state

\* traci.simulationStep: one second passes, the program moves to its next
\* phase when the running one has lasted its duration, the lanes report
\* halting, and arrivals more vehicles have ended their route
simulationStep(s, halting, arrivals) ==
    LET t == s.time + 1
        over == t - s.entered >= s.program[s.phase + 1].duration
    IN  [s EXCEPT !.time = t,
                  !.phase = IF over THEN (s.phase + 1) % phase_count(s) ELSE @,
                  !.entered = IF over THEN t ELSE @,
                  !.halting = halting,
                  !.arrived = @ + arrivals]

\* traci.trafficlight.setPhase: the phase starts now and runs its duration
setPhase(s, index) ==
    [s EXCEPT !.phase = index, !.entered = s.time,
              !.setPhase_calls = @ + 1]

\* the sum of traci.lane.getLastStepHaltingNumber over a set of lanes
HaltingOn(s, lanes) == SumOver(s.halting, lanes)

\* get_approach_queues: the halting vehicles of every edge
get_approach_queues(s) ==
    [edge \in {getEdgeID(lane) : lane \in Lanes} |->
        HaltingOn(s, {lane \in Lanes : getEdgeID(lane) = edge})]

\* lines 275-278: the lanes with a link that shows G or g
current_green_lanes(s) ==
    LET current_state == getRedYellowGreenState(s)
    IN  {controlled_lanes[i] : i \in
            {k \in DOMAIN controlled_lanes :
                /\ controlled_lanes[k] # ""
                /\ k <= Len(current_state)
                /\ current_state[k] \in {"G", "g"}}}

\* line 285: sum(queues.values())
total_queue(s) ==
    LET queues == get_approach_queues(s)
    IN  SumOver(queues, DOMAIN queues)

\* faulty variant: a lead of exactly QUEUE_THRESHOLD switches already
should_switch_phase_AtThreshold(sim_time, start, cfg, s) ==
    LET phase_duration == sim_time - start
    IN  IF phase_duration < cfg.MIN_GREEN_TIME THEN FALSE
        ELSE IF phase_duration >= cfg.MAX_GREEN_TIME THEN TRUE
        ELSE /\ current_green_lanes(s) # {}
             /\ total_queue(s) - HaltingOn(s, current_green_lanes(s))
                    >= HaltingOn(s, current_green_lanes(s)) + cfg.QUEUE_THRESHOLD

\* AdaptiveTrafficController.should_switch_phase with phase_start_time = start
should_switch_phase(sim_time, start, cfg, s) ==
    LET phase_duration == sim_time - start
    IN  IF phase_duration < cfg.MIN_GREEN_TIME THEN FALSE
        ELSE IF phase_duration >= cfg.MAX_GREEN_TIME THEN TRUE
        ELSE /\ current_green_lanes(s) # {}
             /\ LET current_queue == HaltingOn(s, current_green_lanes(s))
                    other_queue == total_queue(s) - current_queue
                IN  other_queue > current_queue + cfg.QUEUE_THRESHOLD

\* faulty variant: the next phase is not wrapped to the program's length
control_step_NoWrap(sim_time, start, cfg, s) ==
    IF should_switch_phase(sim_time, start, cfg, s)
    THEN [sumo |-> setPhase(s, s.phase + 1),
          phase_start_time |-> sim_time, returned |-> TRUE]
    ELSE [sumo |-> s, phase_start_time |-> start, returned |-> FALSE]

\* AdaptiveTrafficController.control_step: the simulator and phase_start_time
\* after the call, and what the call returns
control_step(sim_time, start, cfg, s) ==
    IF should_switch_phase(sim_time, start, cfg, s)
    THEN [sumo |-> setPhase(s, (s.phase + 1) % phase_count(s)),
          phase_start_time |-> sim_time, returned |-> TRUE]
    ELSE [sumo |-> s, phase_start_time |-> start, returned |-> FALSE]

\* TrafficMetrics.update; the waiting times and speeds of the vehicles are
\* not followed
MetricsUpdate(m, queue_length) ==
    [m EXCEPT !.total_queue_length = @ + queue_length,
              !.measurements = @ + 1]

\* TrafficMetrics.calculate, the entries that are whole numbers
calculate(m) ==
    [vehicles_passed |-> m.vehicles_passed, measurements |-> m.measurements]

\* what control_step is called on: the simulator after its step
Seen(sim_time, start, s) ==
    [called |-> TRUE, sim_time |-> sim_time, phase_start_time |-> start,
     phase |-> s.phase, age |-> sim_time - s.entered,
     green |-> current_green_lanes(s),
     current_queue |-> HaltingOn(s, current_green_lanes(s)),
     other_queue |-> total_queue(s) - HaltingOn(s, current_green_lanes(s)),
     returned |-> FALSE]

\* one pass of the loop of run_simulation (lines 380-395): the simulator
\* steps, the controller decides, the metrics are updated
LoopStep ==
    /\ pc = "traffic"
    /\ sumo.time < MaxSimSteps
    /\ \E halting \in [Lanes -> 0..MaxHalting] :
       \E arrivals \in 0..(IF sumo.arrived < MaxArrived THEN 1 ELSE 0) :
          LET s == simulationStep(sumo, halting, arrivals)
              sim_time == s.time
              done == control_step(sim_time, phase_start_time, config, s)
          IN  /\ sumo' = done.sumo
              /\ phase_start_time' = done.phase_start_time
              /\ phase_switches' = IF done.returned THEN phase_switches + 1
                                   ELSE phase_switches
              /\ last_step' = [Seen(sim_time, phase_start_time, s)
                                  EXCEPT !.returned = done.returned]
              /\ metrics' = MetricsUpdate(metrics, total_queue(done.sumo))
    /\ UNCHANGED <<scriptVars, pipelineVars, quant, monitorVars, config,
                   log_files, step_idx>>

\* lines 413-431: the loop is over, the final metrics are calculated and
\* printed and traci is closed
Report ==
    /\ pc = "traffic"
    /\ sumo.time = MaxSimSteps
    /\ pc' = "reported"
    /\ sumo' = [sumo EXCEPT !.running = FALSE]
    /\ UNCHANGED <<MIN_NOTE_MS, MIN_MIDI_NOTE_MS, time, smoothed, current_note,
                   current_count, current_start, printed, raw_events, events,
                   notes>>
    /\ UNCHANGED <<pipelineVars, quant, monitorVars, config, phase_start_time,
                   phase_switches, metrics, last_step, log_files, step_idx>>

\* the script, the quantizers and the monitor while a traffic program runs
TrafficOnly(p) ==
    /\ pc = p
    /\ MIN_NOTE_MS = 80
    /\ MIN_MIDI_NOTE_MS = 200
    /\ time = <<>>
    /\ smoothed = <<>>
    /\ current_note = None
    /\ current_count = 0
    /\ current_start = None
    /\ printed = <<>>
    /\ raw_events = <<>>
    /\ events = <<>>
    /\ notes = <<>>
    /\ NoPipeline
    /\ quant = NoQuant
    /\ Constructed(4096)

\* run_simulation up to its loop: the configuration is loaded, traci is
\* started, and the controller and the metrics are constructed
InitTraffic ==
    /\ TrafficOnly("traffic")
    /\ config \in Configs
    /\ \E program \in Programs :
          sumo = [NoSimulation EXCEPT !.program = program,
                                      !.halting = [lane \in Lanes |-> 0],
                                      !.running = TRUE]
    /\ phase_start_time = 0
    /\ phase_switches = 0
    /\ metrics = MetricsReset
    /\ last_step = NoStep
    /\ log_files = {}
    /\ step_idx = 0

NextTraffic == LoopStep \/ Report

SpecTraffic == InitTraffic /\ [][NextTraffic]_vars

\* the lanes that show green in the phase the last control_step was called in
GreenAtStep ==
    {lane \in Lanes : \E i \in DOMAIN controlled_lanes :
        /\ controlled_lanes[i] = lane
        /\ sumo.program[last_step.phase + 1].state[i] \in {"G", "g"}}

\* the halting vehicles of the lanes that showed green, and of the other lanes
HaltingGreen == SumOver(sumo.halting, GreenAtStep)

HaltingOther == SumOver(sumo.halting, Lanes \ GreenAtStep)

\* how long before the last control_step the controller had last switched
StepDuration == last_step.sim_time - last_step.phase_start_time

\* C33: the controller never switches away from a signal phase that has been
\* active for less than MIN_GREEN_TIME seconds, whether the phase was entered
\* by the controller's setPhase or by the simulator's program moving on.
C33_MinimumGreen ==
    (last_step.called /\ last_step.returned) =>
        last_step.age >= config.MIN_GREEN_TIME

\* C34: whenever sim_time - phase_start_time >= MAX_GREEN_TIME, control_step
\* returns True and advances the phase, for every configuration that can be
\* loaded, one with the minimum above the maximum included.
C34_MaximumGreen ==
    (last_step.called /\ StepDuration >= config.MAX_GREEN_TIME) =>
        /\ last_step.returned
        /\ sumo.phase = (last_step.phase + 1) % phase_count(sumo)

\* C35: once the minimum green time has passed, the controller switches when
\* no vehicle halts on the lanes that are green, or when the maximum time is
\* reached.
C35_SwitchWhenQueueCleared ==
    (/\ last_step.called
     /\ StepDuration >= config.MIN_GREEN_TIME
     /\ \/ GreenAtStep # {} /\ HaltingGreen = 0
        \/ StepDuration >= config.MAX_GREEN_TIME) =>
        last_step.returned

\* C36: between MIN_GREEN_TIME and MAX_GREEN_TIME the controller switches iff
\* a controlled lane is green and the halting count of the other lanes
\* exceeds that of the green lanes by more than QUEUE_THRESHOLD; in a phase
\* without a green lane it does not switch before MAX_GREEN_TIME.
C36_QueueHeuristic ==
    (/\ last_step.called
     /\ config.MIN_GREEN_TIME <= StepDuration
     /\ StepDuration < config.MAX_GREEN_TIME) =>
        /\ last_step.returned <=>
              /\ GreenAtStep # {}
              /\ HaltingOther > HaltingGreen + config.QUEUE_THRESHOLD
        /\ GreenAtStep = {} => ~last_step.returned

\* inside the window the controller switched because the other approach led
\* by one vehicle more than the threshold
C36_Witness ==
    /\ last_step.called
    /\ config.MIN_GREEN_TIME <= StepDuration
    /\ StepDuration < config.MAX_GREEN_TIME
    /\ last_step.returned
    /\ HaltingGreen = 0
    /\ HaltingOther = config.QUEUE_THRESHOLD + 1

\* C37: a control_step either switches (phase (current_phase + 1) mod
\* phase_count, phase_start_time = sim_time, returns True) or leaves the phase
\* and phase_start_time as they were and returns False; the phase the
\* controller sets is in 0..phase_count-1, and phase_switches counts exactly
\* the steps that switched.
C37_ControlStepFrame ==
    /\ sumo.phase \in 0..(phase_count(sumo) - 1)
    /\ phase_switches = sumo.setPhase_calls
    /\ last_step.called =>
          IF last_step.returned
          THEN /\ sumo.phase = (last_step.phase + 1) % phase_count(sumo)
               /\ sumo.entered = last_step.sim_time
               /\ phase_start_time = last_step.sim_time
          ELSE /\ sumo.phase = last_step.phase
               /\ sumo.entered = last_step.sim_time - last_step.age
               /\ phase_start_time = last_step.phase_start_time

\* the second switch of a run wraps from the last phase of the program to
\* phase 0
C37_Witness ==
    /\ last_step.called
    /\ last_step.returned
    /\ last_step.phase = phase_count(sumo) - 1
    /\ sumo.phase = 0
    /\ phase_switches = 2
    /\ phase_start_time = sumo.time

\* C38: vehicles_passed as calculate() returns it counts the vehicles that
\* passed through the intersection: after a run in which a vehicle completed
\* its route it is greater than 0.
C38_ThroughputCounted ==
    (pc = "reported" /\ sumo.arrived > 0) =>
        calculate(metrics).vehicles_passed > 0

-----------------------------------------------------------------------------
(* 12) src/traffic/quickstart.py: every simulated step writes one file
       step_<step_idx, six digits>.csv into LOG_DIR after rotate_logs has made
       room for it.  A file is its name and the ordinal of the write that
       made it: the writes of this run count 1, 2, ..., what an earlier run
       left has ordinals up to 0.  The rows of the files are not followed. *)

\* quickstart.py line 12
MAX_FILES == 100

\* bounds: the steps of this run and of the run before it
MaxQuickSteps == 103

MaxEarlierSteps == 150

\* the part of a file name that differs, f"{step_idx:06d}" and the dot of
\* ".csv" after it
StepName(idx) ==
    LET digits == FormatInt(idx)
    IN  [i \in 1..(IF Len(digits) < 6 THEN 6 - Len(digits) ELSE 0) |-> "0"]
            \o digits \o <<".">>

\* the order of the characters of a name: "." comes before the digits
CharCode(c) == IF c = "." THEN 0 ELSE CHOOSE k \in 1..10 : Digit[k] = c

\* Python's order of strings, by which sorted() arranges the paths: a sorts
\* before b, or is b
RECURSIVE NameNotAfter(_, _)
NameNotAfter(a, b) ==
    IF a = <<>> THEN TRUE
    ELSE IF b = <<>> THEN FALSE
    ELSE IF CharCode(Head(a)) # CharCode(Head(b))
         THEN CharCode(Head(a)) < CharCode(Head(b))
         ELSE NameNotAfter(Tail(a), Tail(b))

\* files[0] of sorted(LOG_DIR.glob("step_*.csv"))
FirstSorted(files) ==
    CHOOSE f \in files : \A g \in files : NameNotAfter(f.name, g.name)

\* faulty variant: MAX_FILES files are left before the write
RECURSIVE rotate_logs_Above(_)
rotate_logs_Above(files) ==
    IF Cardinality(files) > MAX_FILES
    THEN LET first == FirstSorted(files)
         IN  rotate_logs_Above(files \ {first})
    ELSE files

\* rotate_logs: the directory after the call
RECURSIVE rotate_logs(_)
rotate_logs(files) ==
    IF Cardinality(files) >= MAX_FILES
    THEN LET first == FirstSorted(files)
         IN  rotate_logs(files \ {first})
    ELSE files

\* lines 46-48: open(csv_path, "w") makes the file or writes over the one of
\* that name
WriteStep(files, idx, ordinal) ==
    {f \in files : f.name # StepName(idx)}
        \cup {[name |-> StepName(idx), written |-> ordinal]}

\* what a run of n steps leaves in an empty directory: its last MAX_FILES
\* steps at most, the last of them written last
LeftBy(n) ==
    {[name |-> StepName(i), written |-> i - n + 1] :
        i \in Max(0, n - MAX_FILES)..(n - 1)}

\* the directories the run starts on: empty, what earlier runs of 2, of
\* MAX_FILES and of MaxEarlierSteps steps left, and MAX_FILES + 2 files put
\* there by a run with a larger MAX_FILES
InitialDirs ==
    {LeftBy(n) : n \in {0, 2, MAX_FILES, MaxEarlierSteps}}
        \cup {{[name |-> StepName(i), written |-> i - MAX_FILES - 1] :
                  i \in 0..(MAX_FILES + 1)}}

\* one pass of the loop of lines 38-79
QuickStep ==
    /\ pc = "quickstart"
    /\ step_idx < MaxQuickSteps
    /\ sumo' = [sumo EXCEPT !.time = @ + 1]
    /\ log_files' = WriteStep(rotate_logs(log_files), step_idx, step_idx + 1)
    /\ step_idx' = step_idx + 1
    /\ UNCHANGED <<scriptVars, pipelineVars, quant, monitorVars, config,
                   phase_start_time, phase_switches, metrics, last_step>>

\* lines 38 and 81: no vehicle is expected any more, the loop ends and traci
\* is closed
QuickClose ==
    /\ pc = "quickstart"
    /\ pc' = "closed"
    /\ sumo' = [sumo EXCEPT !.running = FALSE]
    /\ UNCHANGED <<MIN_NOTE_MS, MIN_MIDI_NOTE_MS, time, smoothed, current_note,
                   current_count, current_start, printed, raw_events, events,
                   notes>>
    /\ UNCHANGED <<pipelineVars, quant, monitorVars, config, phase_start_time,
                   phase_switches, metrics, last_step, log_files, step_idx>>

\* lines 16-36: the directory exists, traci is started, step_idx = 0
InitQuickstart ==
    /\ TrafficOnly("quickstart")
    /\ config = DefaultConfig
    /\ sumo = [NoSimulation EXCEPT !.running = TRUE]
    /\ phase_start_time = 0
    /\ phase_switches = 0
    /\ metrics = MetricsReset
    /\ last_step = NoStep
    /\ log_files \in InitialDirs
    /\ step_idx = 0

NextQuickstart == QuickStep \/ QuickClose

SpecQuickstart == InitQuickstart /\ [][NextQuickstart]_vars

\* the ordinals of the writes that made the files of the directory
Ordinals == {f.written : f \in log_files}

\* C39: rotate_logs deletes the oldest step files first, so after every step
\* the step files of the directory are exactly the most recently written
\* ones, also when the directory held step files of an earlier run at the
\* start.
C39_NewestFilesKept ==
    step_idx >= 1 =>
        Ordinals = (step_idx - Cardinality(log_files) + 1)..step_idx

\* C40: after every step the directory holds at most MAX_FILES step files,
\* whatever number of them it held when the run started.
C40_AtMostMaxFiles ==
    step_idx >= 1 => Cardinality(log_files) <= MAX_FILES

\* the run started on MAX_FILES + 2 files and its first two steps left
\* exactly MAX_FILES files, the fourth of the old ones among them
C40_Witness ==
    /\ step_idx = 2
    /\ Cardinality(log_files) = MAX_FILES
    /\ \E f \in log_files : f.name = StepName(3) /\ f.written = 2 - MAX_FILES

====
